---- MODULE Spec2Model ----
(***************************************************************************)
(* The recorder hook (useRecorder) of the capture feature together with    *)
(* the persistence port it drives (takeRepoFs).                            *)
(*                                                                         *)
(* JavaScript runs the hook on one cooperative thread: every action below  *)
(* is one run-to-completion segment of a handler, from a call or a         *)
(* resumption up to the next await that really yields (a timer or a        *)
(* persistence call).  React state is `state`; the callbacks a caller      *)
(* holds were built by the last render and read the status captured by     *)
(* that render, `seen`, until the component renders again.                 *)
(***************************************************************************)
EXTENDS Integers, Sequences, FiniteSets, TLC

\* ------------------------------------------------------------------ bounds
MaxFrames == 3        \* frames the stream source delivers
MaxTakes == 2         \* startRecording calls that reach createTake
MaxFailures == 1      \* persistence calls that fail
MaxChunkFrames == 2   \* options.chunkFrames is chosen in 1..MaxChunkFrames
MaxStops == 1         \* stopRecording calls in flight at once

\* ------------------------------------------------------------------- nulls
NoTake == 0           \* takeRef.current === null
NoTs == -1            \* firstTsRef.current / lastTsRef.current === null

VARIABLES
  state,          \* React state of the hook: status, take, buffered, flushedChunks
  seen,           \* state.status as captured by the callbacks of the last render
  takeRef,        \* takeRef.current (NoTake = null)
  chunkNoRef,     \* chunkNoRef.current
  bufferRef,      \* bufferRef.current, a sequence of frames
  firstTsRef,     \* firstTsRef.current (NoTs = null)
  lastTsRef,      \* lastTsRef.current (NoTs = null)
  flushingRef,    \* flushingRef.current
  flushAgainRef,  \* flushAgainRef.current
  optsRef,        \* optsRef.current.chunkFrames
  drains,         \* flush() invocations suspended inside their drain loop
  creating,       \* number of startRecording calls awaiting createTake
  finalizing,     \* stopRecording calls awaiting finalizeTake
  takes,          \* persistence port: take id -> metadata (index = id)
  chunks,         \* persistence port: chunks stored, in completion order
  appendCalls,    \* appendFrames calls received by the port, in call order
  finalizeCalls,  \* finalizeTake calls received by the port, in call order
  accepted,       \* take id -> frames pushFrame accepted while it was active
  nextTs,         \* timestamp of the next frame the stream source delivers
  failures,       \* persistence calls that have failed so far
  rejected,       \* rejections: which call a persistence error reached
  returned,       \* takes stopRecording has returned as finalized
  requested       \* frames buffered when flush() was asked for during a running flush

\* The pose smoother, the file-backed take store with the exporter, and the
\* BVH writers are separate components; each has its own specification below
\* and keeps its initial value in the specifications of the others.
VARIABLES
  smoother,       \* PoseSmoother instance: per landmark the three One-Euro filters
  filtered,       \* the last PoseSmoother.filter call: input buffer and returned buffer
  metaFile,       \* <take dir>/meta.json of the stored take
  framesFile,     \* <take dir>/frames.jsonl, a sequence of lines
  exportFiles,    \* files written into the export directory
  result,         \* outcome of the last store / exporter call
  mmkv,           \* the MMKV storage of takeRepo (<<>>: the file repository is in use)
  sent,           \* frames handed to appendFrames, in call order
  fsCalls,        \* takeRepoFs calls running step by step, and those that have ended
  bvhFrames,      \* frame list given to a BVH writer
  bvhText,        \* what the BVH writer produced for it
  engine,         \* the stream source: PoseEngine (JS) and PoseEngineModule (native)
  poseRunner      \* the native PoseLandmarkerRunner and the detections it has asked for

recorder == <<state, seen, takeRef, chunkNoRef, bufferRef, firstTsRef, lastTsRef,
              flushingRef, flushAgainRef, optsRef, drains, creating, finalizing,
              takes, chunks, appendCalls, finalizeCalls, accepted, nextTs,
              failures, rejected, returned, requested>>
smooth == <<smoother, filtered>>
store == <<metaFile, framesFile, exportFiles, result, sent, mmkv, fsCalls>>
bvh == <<bvhFrames, bvhText>>

vars == <<recorder, smooth, store, bvh, engine, poseRunner>>

\* A file that does not exist, and a file holding content c.
NoFile == <<>>
File(c) == <<c>>

\* No call has been made yet.
NoCall == <<>>

\* The components outside the recorder before anything has used them.
SmootherUnused == smoother = <<>> /\ filtered = NoCall
StoreUnused ==
  /\ metaFile = NoFile
  /\ framesFile = NoFile
  /\ exportFiles = [json |-> NoFile, bvh |-> NoFile]
  /\ result = NoCall
  /\ sent = <<>>
  /\ mmkv = <<>>
  /\ fsCalls = <<>>
BvhUnused == bvhFrames = <<>> /\ bvhText = NoCall

\* The stream source as the app finds it: the wrapper not started, the native
\* module idle without listeners, no call made, no frame emitted.
EngineIdle ==
  [started |-> FALSE, state |-> "idle", sessionId |-> 0, hasListeners |-> FALSE,
   runnerSession |-> 0, calls |-> <<>>, emitted |-> {}]
\* PoseLandmarkerRunner after init(): not running, nothing in flight, no
\* callback (onOutput 0), no detection asked for, no result given out.
RunnerIdle ==
  [isRunning |-> FALSE, inFlight |-> FALSE, droppedFrames |-> 0, sessionId |-> 0,
   onOutput |-> 0, requests |-> {}, asked |-> 0, outputs |-> <<>>]
EngineUnused == engine = EngineIdle /\ poseRunner = RunnerIdle

refs == <<takeRef, chunkNoRef, bufferRef, firstTsRef, lastTsRef>>
flags == <<flushingRef, flushAgainRef>>
port == <<takes, chunks, appendCalls, finalizeCalls>>
ghost == <<accepted, nextTs, failures, rejected, returned>>

Range(s) == {s[i] : i \in 1..Len(s)}

\* ----------------------------------------------------------------- helpers
Max(a, b) == IF a >= b THEN a ELSE b

RECURSIVE SumLen(_)
SumLen(s) == IF s = <<>> THEN 0 ELSE Len(Head(s).frames) + SumLen(Tail(s))

RECURSIVE Concat(_)
Concat(s) == IF s = <<>> THEN <<>> ELSE Head(s).frames \o Concat(Tail(s))

OfTake(s, t) == SelectSeq(s, LAMBDA c : c.take = t)

RemoveAt(s, i) == SubSeq(s, 1, i - 1) \o SubSeq(s, i + 1, Len(s))

IdleState == [status |-> "idle", take |-> NoTake, buffered |-> 0, flushedChunks |-> 0]

\* newTake(): zero stats
NewTake == [frameCount |-> 0, chunkCount |-> 0, durationMs |-> 0,
            avgFpsNum |-> 0, avgFpsDen |-> 1, finalized |-> FALSE]

RecorderInit ==
  /\ state = IdleState
  /\ seen = "idle"
  /\ takeRef = NoTake
  /\ chunkNoRef = 0
  /\ bufferRef = <<>>
  /\ firstTsRef = NoTs
  /\ lastTsRef = NoTs
  /\ flushingRef = FALSE
  /\ flushAgainRef = FALSE
  /\ optsRef = MaxChunkFrames
  /\ drains = <<>>
  /\ creating = 0
  /\ finalizing = <<>>
  /\ takes = <<>>
  /\ chunks = <<>>
  /\ appendCalls = <<>>
  /\ finalizeCalls = <<>>
  /\ accepted = <<>>
  /\ nextTs = 1
  /\ failures = 0
  /\ rejected = <<>>
  /\ returned = <<>>
  /\ requested = {}

Init == RecorderInit /\ SmootherUnused /\ StoreUnused /\ BvhUnused /\ EngineUnused

\* ---------------------------------------------------------- React rendering
\* The component renders again after a setState: the callbacks are rebuilt
\* (useCallback deps [state.status]) and capture the current status.
Render ==
  /\ seen # state.status
  /\ seen' = state.status
  /\ UNCHANGED <<requested, state, refs, flags, optsRef, drains, creating, finalizing, port, ghost>>

\* updateCounters(): setState(prev => recording|stopping ? {...prev, counters} : prev)
UpdateCounters(st, buffered, flushed) ==
  IF st.status \in {"recording", "stopping"}
  THEN [st EXCEPT !.buffered = buffered, !.flushedChunks = flushed]
  ELSE st

\* ------------------------------------------------------------------ flush()
\* Mutant of FlushBusy: flush() forgets to look at the busy flag.
FlushNeverBusy == FALSE

\* if (flushingRef.current) { flushAgainRef.current = true; return; }
FlushBusy == flushingRef

\* Mutant of HasAnything: flush() goes on with an empty buffer.
HasAnythingAlways(buf) == TRUE

\* const hasAnything = bufferRef.current.length > 0
HasAnything(buf) == Len(buf) > 0

\* flush() returns without draining: busy, no active take, or nothing buffered.
FlushReturnsAtOnce(buf) == FlushBusy \/ takeRef = NoTake \/ ~HasAnything(buf)

\* The synchronous head of flush(), called with the buffer contents `buf`,
\* up to the first await of the drain loop (the setTimeout yield).
FlushEnter(buf, caller) ==
  IF FlushBusy
  THEN /\ flushAgainRef' = TRUE
       /\ bufferRef' = buf
       /\ requested' = requested \cup Range(buf)
       /\ UNCHANGED <<flushingRef, drains>>
  ELSE IF takeRef = NoTake \/ ~HasAnything(buf)
  THEN /\ bufferRef' = buf
       /\ UNCHANGED <<flushingRef, flushAgainRef, drains, requested>>
  ELSE /\ flushingRef' = TRUE
       /\ bufferRef' = <<>>
       /\ requested' = requested
       /\ drains' = Append(drains, [take |-> takeRef, frames |-> buf,
                                    chunkNo |-> chunkNoRef, pc |-> "yield",
                                    caller |-> caller])
       /\ UNCHANGED flushAgainRef

\* Mutant of FinalizeArgs: the first timestamp is not tracked.
FinalizeArgsNoFirst(t) ==
  [take |-> t, firstTs |-> 0, lastTs |-> IF lastTsRef = NoTs THEN 0 ELSE lastTsRef]

\* stopRecording after `await flush()`: reads the timestamps and calls
\* finalizeTake(take.id, first, last).
FinalizeArgs(t) ==
  LET first == IF firstTsRef = NoTs THEN 0 ELSE firstTsRef
      last == IF lastTsRef = NoTs THEN first ELSE lastTsRef
  IN [take |-> t, firstTs |-> first, lastTs |-> last]


\* Hands the stop call over to the persistence port's finalizeTake.
CallFinalize(t) ==
  /\ finalizing' = Append(finalizing, FinalizeArgs(t))
  /\ finalizeCalls' = Append(finalizeCalls, FinalizeArgs(t))

\* stopRecording calls in flight: awaiting their drain or awaiting finalizeTake.
StopsInFlight ==
  Len(finalizing) + Len(SelectSeq(drains, LAMBDA d : d.caller = "stop"))

\* ------------------------------------------------------------ startRecording
\* if (state.status !== "idle") return;  -- the status of the last render
StartGuard == seen = "idle"

\* startRecording(options) up to `await takeRepo.createTake(...)`.
StartRecording(chunkFrames) ==
  /\ StartGuard
  /\ Len(takes) + creating < MaxTakes
  /\ optsRef' = chunkFrames
  /\ creating' = creating + 1
  /\ UNCHANGED <<requested, state, seen, refs, flags, drains, finalizing, port, ghost>>

\* createTake resolves: the take exists in the port, startRecording resumes,
\* resets the refs and enters `recording`.
CreateTakeReturns ==
  /\ creating > 0
  /\ creating' = creating - 1
  /\ takes' = Append(takes, NewTake)
  /\ accepted' = Append(accepted, <<>>)
  /\ takeRef' = Len(takes) + 1
  /\ chunkNoRef' = 0
  /\ bufferRef' = <<>>
  /\ firstTsRef' = NoTs
  /\ lastTsRef' = NoTs
  /\ state' = [status |-> "recording", take |-> Len(takes) + 1,
               buffered |-> 0, flushedChunks |-> 0]
  /\ UNCHANGED <<requested, seen, flags, optsRef, drains, finalizing, chunks, appendCalls,
                 finalizeCalls, nextTs, failures, rejected, returned>>

\* createTake rejects: startRecording rejects before touching any ref.
CreateTakeFails ==
  /\ creating > 0
  /\ failures < MaxFailures
  /\ creating' = creating - 1
  /\ failures' = failures + 1
  /\ rejected' = Append(rejected, [call |-> "start", take |-> NoTake])
  /\ UNCHANGED <<requested, state, seen, refs, flags, optsRef, drains, finalizing, port,
                 accepted, nextTs, returned>>

\* ----------------------------------------------------------------- pushFrame
\* Mutant of PushGuard: frames are still accepted while the recorder is stopping.
PushWhileStopping == seen \in {"recording", "stopping"} /\ takeRef # NoTake

\* if (state.status !== "recording") return; if (!takeRef.current) return;
PushGuard == seen = "recording" /\ takeRef # NoTake

\* counters are refreshed when the buffer length is a multiple of this
CounterEvery == 10

\* Mutant of ChunkFull: the flush is triggered one frame late.
ChunkOverfull(buf) == Len(buf) > optsRef

\* bufferRef.current.length >= optsRef.current.chunkFrames
ChunkFull(buf) == Len(buf) >= optsRef

\* pushFrame(frame): the frame is identified by its timestamp.
PushFrame ==
  /\ PushGuard
  /\ nextTs <= MaxFrames
  /\ LET buf == Append(bufferRef, nextTs) IN
       /\ firstTsRef' = IF firstTsRef = NoTs THEN nextTs ELSE firstTsRef
       /\ lastTsRef' = nextTs
       /\ state' = IF Len(buf) % CounterEvery = 0
                   THEN UpdateCounters(state, Len(buf), chunkNoRef)
                   ELSE state
       /\ IF ChunkFull(buf)
          THEN FlushEnter(buf, "push")
          ELSE /\ bufferRef' = buf
               /\ UNCHANGED <<flags, drains, requested>>
  /\ accepted' = [accepted EXCEPT ![takeRef] = Append(@, nextTs)]
  /\ nextTs' = nextTs + 1
  /\ UNCHANGED <<seen, takeRef, chunkNoRef, optsRef, creating, finalizing, port,
                 failures, rejected, returned>>

\* flush() called directly through the hook's API.
Flush ==
  /\ FlushEnter(bufferRef, "flush")
  /\ UNCHANGED <<state, seen, takeRef, chunkNoRef, firstTsRef, lastTsRef, optsRef,
                 creating, finalizing, port, ghost>>

\* -------------------------------------------------------------- stopRecording
\* if (state.status !== "recording") return; if (!takeRef.current) return;
StopGuard == seen = "recording" /\ takeRef # NoTake

\* stopRecording up to its first real suspension: setState(stopping), then
\* `await flush()`.  When flush() returns at once the call goes straight on to
\* finalizeTake; otherwise it waits for the drain it started.
StopRecording ==
  /\ StopGuard
  /\ StopsInFlight < MaxStops
  /\ state' = IF state.status = "recording"
              THEN [state EXCEPT !.status = "stopping"]
              ELSE state
  /\ FlushEnter(bufferRef, "stop")
  /\ IF FlushReturnsAtOnce(bufferRef)
     THEN CallFinalize(takeRef)
     ELSE UNCHANGED <<finalizing, finalizeCalls>>
  /\ UNCHANGED <<seen, takeRef, chunkNoRef, firstTsRef, lastTsRef, optsRef,
                 creating, takes, chunks, appendCalls, ghost>>

\* --------------------------------------------------------------- drain loop
\* The setTimeout(0) yield is over: the drain calls
\* takeRepo.appendFrames(take.id, chunkNo, frames).
AppendCall(i) ==
  /\ drains[i].pc = "yield"
  /\ drains' = [drains EXCEPT ![i].pc = "append"]
  /\ appendCalls' = Append(appendCalls, [take |-> drains[i].take,
                                          n |-> drains[i].chunkNo,
                                          frames |-> drains[i].frames])
  /\ UNCHANGED <<requested, state, seen, refs, flags, optsRef, creating, finalizing, takes,
                 chunks, finalizeCalls, ghost>>

\* chunkNoRef.current = chunkNo + 1
NextChunkNo(chunkNo) == chunkNo + 1

\* appendFrames in the port: the chunk is stored and the metadata updated.
StoreChunk(d) ==
  /\ chunks' = Append(chunks, [take |-> d.take, n |-> d.chunkNo, frames |-> d.frames])
  /\ takes' = [takes EXCEPT ![d.take] =
                 [@ EXCEPT !.frameCount = @ + Len(d.frames),
                           !.chunkCount = Max(@, d.chunkNo + 1)]]

\* appendFrames resolves: the drain advances the chunk number, refreshes the
\* counters and goes round its loop: it ends when the buffer is empty (the
\* finally block clears both flags), else it takes the buffer as the next chunk.
AppendReturns(i) ==
  LET d == drains[i] IN
  /\ d.pc = "append"
  /\ StoreChunk(d)
  /\ chunkNoRef' = NextChunkNo(d.chunkNo)
  /\ state' = UpdateCounters(state, Len(bufferRef), NextChunkNo(d.chunkNo))
  /\ IF Len(bufferRef) = 0
     THEN /\ flushingRef' = FALSE
          /\ flushAgainRef' = FALSE
          /\ drains' = RemoveAt(drains, i)
          /\ bufferRef' = bufferRef
          /\ IF d.caller = "stop"
             THEN CallFinalize(d.take)
             ELSE UNCHANGED <<finalizing, finalizeCalls>>
     ELSE /\ drains' = [drains EXCEPT ![i] =
                          [@ EXCEPT !.frames = bufferRef,
                                    !.chunkNo = NextChunkNo(d.chunkNo),
                                    !.pc = "yield"]]
          /\ bufferRef' = <<>>
          /\ flushAgainRef' = FALSE
          /\ UNCHANGED <<flushingRef, finalizing, finalizeCalls>>
  /\ UNCHANGED <<requested, seen, takeRef, firstTsRef, lastTsRef, optsRef, creating,
                 appendCalls, ghost>>

\* Mutant of FlushingAfterError: an error leaves the in-flight marker set.
FlushingKeptAfterError == TRUE

\* finally { flushingRef.current = false; ... }
FlushingAfterError == FALSE

\* appendFrames rejects: the finally block clears both flags and the error
\* leaves flush() towards whoever awaits it (`void flush()` in pushFrame: nobody).
AppendFails(i) ==
  LET d == drains[i] IN
  /\ d.pc = "append"
  /\ failures < MaxFailures
  /\ failures' = failures + 1
  /\ flushingRef' = FlushingAfterError
  /\ flushAgainRef' = FALSE
  /\ drains' = RemoveAt(drains, i)
  /\ rejected' = Append(rejected, [call |-> d.caller, take |-> d.take])
  /\ UNCHANGED <<requested, state, seen, refs, optsRef, creating, finalizing, port,
                 accepted, nextTs, returned>>

\* ------------------------------------------------------------- finalizeTake
\* Mutant of Finalized: the duration is not clamped at zero.
FinalizedUnclamped(take, firstTs, lastTs) ==
  [take EXCEPT !.durationMs = lastTs - firstTs, !.finalized = TRUE]

\* finalizeTake in the port: durationMs and avgFps (kept as a fraction).
Finalized(take, firstTs, lastTs) ==
  LET durationMs == Max(0, lastTs - firstTs) IN
  [take EXCEPT !.durationMs = durationMs,
               !.avgFpsNum = IF durationMs > 0 THEN take.frameCount * 1000 ELSE 0,
               !.avgFpsDen = IF durationMs > 0 THEN durationMs ELSE 1,
               !.finalized = TRUE]

\* Mutant of BufferAfterStop: stopRecording forgets to reset the buffer.
BufferKeptAfterStop == bufferRef

\* bufferRef.current = [] in stopRecording's reset
BufferAfterStop == <<>>

\* finalizeTake resolves: stopRecording resets the refs, goes idle and returns
\* the finalized take.
FinalizeReturns(i) ==
  LET f == finalizing[i]
      done == Finalized(takes[f.take], f.firstTs, f.lastTs)
  IN
  /\ takes' = [takes EXCEPT ![f.take] = done]
  /\ finalizing' = RemoveAt(finalizing, i)
  /\ takeRef' = NoTake
  /\ bufferRef' = BufferAfterStop
  /\ chunkNoRef' = 0
  /\ firstTsRef' = NoTs
  /\ lastTsRef' = NoTs
  /\ state' = IdleState
  /\ returned' = Append(returned, [take |-> f.take, frameCount |-> done.frameCount])
  /\ UNCHANGED <<requested, seen, flags, optsRef, drains, creating, chunks, appendCalls,
                 finalizeCalls, accepted, nextTs, failures, rejected>>

\* finalizeTake rejects: stopRecording rejects, nothing is reset.
FinalizeFails(i) ==
  /\ failures < MaxFailures
  /\ failures' = failures + 1
  /\ finalizing' = RemoveAt(finalizing, i)
  /\ rejected' = Append(rejected, [call |-> "stop", take |-> finalizing[i].take])
  /\ UNCHANGED <<requested, state, seen, refs, flags, optsRef, drains, creating, port,
                 accepted, nextTs, returned>>

Next ==
  \/ Render /\ UNCHANGED <<smooth, store, bvh, engine, poseRunner>>
  \/ \E c \in 1..MaxChunkFrames : StartRecording(c) /\ UNCHANGED <<smooth, store, bvh, engine, poseRunner>>
  \/ CreateTakeReturns /\ UNCHANGED <<smooth, store, bvh, engine, poseRunner>>
  \/ CreateTakeFails /\ UNCHANGED <<smooth, store, bvh, engine, poseRunner>>
  \/ PushFrame /\ UNCHANGED <<smooth, store, bvh, engine, poseRunner>>
  \/ Flush /\ UNCHANGED <<smooth, store, bvh, engine, poseRunner>>
  \/ StopRecording /\ UNCHANGED <<smooth, store, bvh, engine, poseRunner>>
  \/ \E i \in 1..Len(drains) : AppendCall(i) /\ UNCHANGED <<smooth, store, bvh, engine, poseRunner>>
  \/ \E i \in 1..Len(drains) : AppendReturns(i) /\ UNCHANGED <<smooth, store, bvh, engine, poseRunner>>
  \/ \E i \in 1..Len(drains) : AppendFails(i) /\ UNCHANGED <<smooth, store, bvh, engine, poseRunner>>
  \/ \E i \in 1..Len(finalizing) : FinalizeReturns(i) /\ UNCHANGED <<smooth, store, bvh, engine, poseRunner>>
  \/ \E i \in 1..Len(finalizing) : FinalizeFails(i) /\ UNCHANGED <<smooth, store, bvh, engine, poseRunner>>

Spec == Init /\ [][Next]_vars


\* A caller that uses the hook as React intends: it calls the callbacks of the
\* latest render only, and does not call startRecording again while an earlier
\* startRecording is still creating its take.
FreshSnapshot == seen = state.status

NextFresh ==
  \/ Render /\ UNCHANGED <<smooth, store, bvh, engine, poseRunner>>
  \/ FreshSnapshot /\ creating = 0 /\ \E c \in 1..MaxChunkFrames : StartRecording(c) /\ UNCHANGED <<smooth, store, bvh, engine, poseRunner>>
  \/ CreateTakeReturns /\ UNCHANGED <<smooth, store, bvh, engine, poseRunner>>
  \/ CreateTakeFails /\ UNCHANGED <<smooth, store, bvh, engine, poseRunner>>
  \/ FreshSnapshot /\ PushFrame /\ UNCHANGED <<smooth, store, bvh, engine, poseRunner>>
  \/ FreshSnapshot /\ Flush /\ UNCHANGED <<smooth, store, bvh, engine, poseRunner>>
  \/ FreshSnapshot /\ StopRecording /\ UNCHANGED <<smooth, store, bvh, engine, poseRunner>>
  \/ \E i \in 1..Len(drains) : AppendCall(i) /\ UNCHANGED <<smooth, store, bvh, engine, poseRunner>>
  \/ \E i \in 1..Len(drains) : AppendReturns(i) /\ UNCHANGED <<smooth, store, bvh, engine, poseRunner>>
  \/ \E i \in 1..Len(drains) : AppendFails(i) /\ UNCHANGED <<smooth, store, bvh, engine, poseRunner>>
  \/ \E i \in 1..Len(finalizing) : FinalizeReturns(i) /\ UNCHANGED <<smooth, store, bvh, engine, poseRunner>>
  \/ \E i \in 1..Len(finalizing) : FinalizeFails(i) /\ UNCHANGED <<smooth, store, bvh, engine, poseRunner>>

SpecFresh == Init /\ [][NextFresh]_vars

\* ================================================================= numbers
\* Numbers of the export code.  A finite number is an integer of the unit its
\* operator states; NaN is what JavaScript arithmetic yields for a missing
\* (undefined) or non-numeric operand, and it propagates through arithmetic.
NaN == -99999999

\* F(e) with e computed once and handed to F as a value.
With(e, F(_)) == CHOOSE r \in {F(x) : x \in {e}} : TRUE
With2(e1, e2, F(_, _)) == CHOOSE r \in {F(x, y) : x \in {e1}, y \in {e2}} : TRUE

Finite(a) == a # NaN
NumAdd(a, b) == IF Finite(a) /\ Finite(b) THEN a + b ELSE NaN
NumSub(a, b) == IF Finite(a) /\ Finite(b) THEN a - b ELSE NaN
NumMul(a, b) == IF Finite(a) /\ Finite(b) THEN a * b ELSE NaN
Abs(a) == IF a < 0 THEN -a ELSE a
\* a === b of two numbers (NaN equals nothing)

Gcd[a \in Nat, b \in Nat] == IF b = 0 THEN a ELSE Gcd[b, a % b]
Gcd4(a, b, c, d) == Gcd[Gcd[Gcd[Abs(a), Abs(b)], Abs(c)], Abs(d)]

\* Math.sqrt, exact: the inputs are chosen so that every length is an integer.
MaxLength == 2000
Sqrt(n) == With(n, LAMBDA m : CHOOSE r \in 0..MaxLength : r * r = m)

\* ------------------------------------------------------------ Skeleton.ts
v3(x, y, z) == [x |-> x, y |-> y, z |-> z]
add(a, b) == v3(NumAdd(a.x, b.x), NumAdd(a.y, b.y), NumAdd(a.z, b.z))
sub(a, b) == v3(NumSub(a.x, b.x), NumSub(a.y, b.y), NumSub(a.z, b.z))
\* mul(a, 0.5), exact: the inputs are chosen so that no half units arise.
mulHalf(a) ==
  LET half(n) == IF Finite(n) THEN CASE n % 2 = 0 -> n \div 2 ELSE NaN
  IN v3(half(a.x), half(a.y), half(a.z))
dot(a, b) == NumAdd(NumAdd(NumMul(a.x, b.x), NumMul(a.y, b.y)), NumMul(a.z, b.z))
cross(a, b) ==
  v3(NumSub(NumMul(a.y, b.z), NumMul(a.z, b.y)),
     NumSub(NumMul(a.z, b.x), NumMul(a.x, b.z)),
     NumSub(NumMul(a.x, b.y), NumMul(a.y, b.x)))
len(a) == With(dot(a, a), LAMBDA d : IF Finite(d) THEN Sqrt(d) ELSE NaN)
NaNVec == v3(NaN, NaN, NaN)
ZeroVec == v3(0, 0, 0)

\* norm(a): the unit vector a / len(a), kept as the fraction v / d of an
\* integer vector and a positive integer; the zero vector for a zero length
\* (l < 1e-9), NaN components once any component of a is NaN.
norm(a) ==
  With2(a, len(a), LAMBDA u, l :
    IF ~Finite(l) THEN [v |-> NaNVec, d |-> 1]
    ELSE IF l = 0 THEN [v |-> ZeroVec, d |-> 1]
    ELSE With(Gcd4(u.x, u.y, u.z, l), LAMBDA g :
           [v |-> v3(u.x \div g, u.y \div g, u.z \div g), d |-> l \div g]))

\* ------------------------------------------- Landmark.ts, MediapipePose33.ts
\* A landmark buffer (Float32Array) is a sequence of numbers, four per
\* landmark: x, y, z, confidence.  Coordinates and confidences are in
\* hundredths (50 is 0.5).  Reading past the end of the buffer gives
\* undefined, which every arithmetic use turns into NaN.
LANDMARK_STRIDE == 4

lmAt(buf, index) ==
  LET o == index * LANDMARK_STRIDE
      at(k) == IF k + 1 \in DOMAIN buf THEN buf[k + 1] ELSE NaN
  IN [x |-> at(o), y |-> at(o + 1), z |-> at(o + 2), c |-> at(o + 3)]

MP33 == [NOSE |-> 0,
         LEFT_SHOULDER |-> 11, RIGHT_SHOULDER |-> 12,
         LEFT_ELBOW |-> 13, RIGHT_ELBOW |-> 14,
         LEFT_WRIST |-> 15, RIGHT_WRIST |-> 16,
         LEFT_HIP |-> 23, RIGHT_HIP |-> 24,
         LEFT_KNEE |-> 25, RIGHT_KNEE |-> 26,
         LEFT_ANKLE |-> 27, RIGHT_ANKLE |-> 28]

NoParent == "null"

RIG == <<[name |-> "Hips", parent |-> NoParent],
         [name |-> "Spine", parent |-> "Hips"],
         [name |-> "Neck", parent |-> "Spine"],
         [name |-> "Head", parent |-> "Neck"],
         [name |-> "LeftShoulder", parent |-> "Neck"],
         [name |-> "LeftElbow", parent |-> "LeftShoulder"],
         [name |-> "LeftWrist", parent |-> "LeftElbow"],
         [name |-> "RightShoulder", parent |-> "Neck"],
         [name |-> "RightElbow", parent |-> "RightShoulder"],
         [name |-> "RightWrist", parent |-> "RightElbow"],
         [name |-> "LeftHip", parent |-> "Hips"],
         [name |-> "LeftKnee", parent |-> "LeftHip"],
         [name |-> "LeftAnkle", parent |-> "LeftKnee"],
         [name |-> "RightHip", parent |-> "Hips"],
         [name |-> "RightKnee", parent |-> "RightHip"],
         [name |-> "RightAnkle", parent |-> "RightKnee"]>>

JointName == {RIG[i].name : i \in 1..Len(RIG)}

\* mpToWorld with the default scale 100: ((x - 0.5) * s, (0.5 - y) * s, -z * s).
\* World coordinates are in quarter units, so that the two midpoints below
\* stay integers.
mpToWorld(buf, i) ==
  LET p == lmAt(buf, i) IN
  v3(NumMul(NumSub(p.x, 50), 4), NumMul(NumSub(50, p.y), 4), NumMul(NumSub(0, p.z), 4))

midpoint(a, b) == mulHalf(add(a, b))

mp33ToJointPose(buf) ==
  LET LHIP == mpToWorld(buf, MP33.LEFT_HIP)
      RHIP == mpToWorld(buf, MP33.RIGHT_HIP)
      LSHO == mpToWorld(buf, MP33.LEFT_SHOULDER)
      RSHO == mpToWorld(buf, MP33.RIGHT_SHOULDER)
      hips == midpoint(LHIP, RHIP)
      neck == midpoint(LSHO, RSHO)
      spine == add(hips, mulHalf(sub(neck, hips)))
  IN [Hips |-> hips, Spine |-> spine, Neck |-> neck,
      Head |-> mpToWorld(buf, MP33.NOSE),
      LeftShoulder |-> LSHO,
      LeftElbow |-> mpToWorld(buf, MP33.LEFT_ELBOW),
      LeftWrist |-> mpToWorld(buf, MP33.LEFT_WRIST),
      RightShoulder |-> RSHO,
      RightElbow |-> mpToWorld(buf, MP33.RIGHT_ELBOW),
      RightWrist |-> mpToWorld(buf, MP33.RIGHT_WRIST),
      LeftHip |-> LHIP,
      LeftKnee |-> mpToWorld(buf, MP33.LEFT_KNEE),
      LeftAnkle |-> mpToWorld(buf, MP33.LEFT_ANKLE),
      RightHip |-> RHIP,
      RightKnee |-> mpToWorld(buf, MP33.RIGHT_KNEE),
      RightAnkle |-> mpToWorld(buf, MP33.RIGHT_ANKLE)]

\* ------------------------------------------------------------ BVHWriter.ts
\* A quaternion is a record of four integers and stands for the unit
\* quaternion of that direction; quatNormalize divides the common factor out.
quat(w, x, y, z) == [w |-> w, x |-> x, y |-> y, z |-> z]

\* Mutant of IdentityQuat: a quarter turn about x.
QuarterTurn == quat(1, 1, 0, 0)

IdentityQuat == quat(1, 0, 0, 0)
FiniteQuat(q) == Finite(q.w) /\ Finite(q.x) /\ Finite(q.y) /\ Finite(q.z)
NormSq(q) == q.w * q.w + q.x * q.x + q.y * q.y + q.z * q.z
Reduced(q) ==
  With(Gcd4(q.w, q.x, q.y, q.z), LAMBDA g :
    quat(q.w \div g, q.x \div g, q.y \div g, q.z \div g))

\* m = Math.sqrt(...) || 1: a zero or NaN length divides by 1.
quatNormalize(q) ==
  With(q, LAMBDA p : IF ~FiniteQuat(p) \/ NormSq(p) = 0 THEN p ELSE Reduced(p))

quatFromTo(a, b) ==
  With2(norm(a), norm(b), LAMBDA v0, v1 :
    \* d = clamp(dot(v0, v1), -1, 1) = dn / D
    With2(v0.d * v1.d, dot(v0.v, v1.v), LAMBDA D, dn :
      IF ~Finite(dn) THEN quat(NaN, NaN, NaN, NaN)
      ELSE IF 1000000 * dn < -999999 * D
      THEN With(norm(IF 10 * Abs(v0.v.x) < v0.d
                     THEN cross(v0.v, v3(1, 0, 0))
                     ELSE cross(v0.v, v3(0, 1, 0))).v,
                LAMBDA axis : quatNormalize(quat(0, axis.x, axis.y, axis.z)))
      ELSE With(cross(v0.v, v1.v),
                LAMBDA c : quatNormalize(quat(D + dn, c.x, c.y, c.z)))))

\* A value of a BVH line.  Num(n) is the number n: a rotation of exactly 0
\* degrees, a position (quarter units for BVHWriter), or NaN.  An angle that
\* is not exactly zero is kept as the term it was computed from.
Num(n) == [fn |-> "num", a |-> n, b |-> 1]
\* asin(n / d) in degrees
AsinDeg(n, d) == IF n = 0 THEN Num(0) ELSE [fn |-> "asinDeg", a |-> n, b |-> d]
\* atan2(y, x) in degrees
Atan2Deg(y, x) == IF y = 0 /\ x > 0 THEN Num(0) ELSE [fn |-> "atan2Deg", a |-> y, b |-> x]

quatToEulerZXYDeg(q0) ==
  With(q0, LAMBDA q :
    IF ~FiniteQuat(q) THEN [x |-> Num(NaN), y |-> Num(NaN), z |-> Num(NaN)]
    ELSE
    LET n == NormSq(q)
        m12 == 2 * (q.x * q.y - q.z * q.w)
        m22 == n - 2 * (q.x * q.x + q.z * q.z)
        m31 == 2 * (q.x * q.z - q.y * q.w)
        m32 == 2 * (q.y * q.z + q.x * q.w)
        m33 == n - 2 * (q.x * q.x + q.y * q.y)
    IN [x |-> AsinDeg(m32, n), y |-> Atan2Deg(-m31, m33), z |-> Atan2Deg(-m12, m22)])

\* fmt: a number below 1e-8 in size (of integers: 0) prints as zero, NaN
\* prints as "NaN", anything else as itself with six decimals.
fmt(v) == IF v.fn = "num" /\ Finite(v.a) /\ Abs(v.a) < 1 THEN Num(0) ELSE v

\* Mutant of childrenOf: only the first child of a joint is found.
FirstChildOnly(name) ==
  With(SelectSeq(RIG, LAMBDA r : r.parent = name), LAMBDA kids :
    [i \in 1..(IF Len(kids) > 1 THEN 1 ELSE Len(kids)) |-> kids[i].name])

childrenOf(name) ==
  With(SelectSeq(RIG, LAMBDA r : r.parent = name), LAMBDA kids :
    [i \in 1..Len(kids) |-> kids[i].name])

getRoot == "Hips"

RigNode(j) == CHOOSE r \in {RIG[i] : i \in 1..Len(RIG)} : r.name = j

buildRestOffsets(rest) ==
  [j \in JointName |->
     IF RigNode(j).parent = NoParent THEN ZeroVec
     ELSE sub(rest[j], rest[RigNode(j).parent])]

\* rest and cur are joint poses; the bone of a joint points to its first
\* child (kids[0]); a length below 1e-6 is, of integers, 0.
localRotation(rest, cur, joint) ==
  With(childrenOf(joint), LAMBDA kids :
    IF Len(kids) = 0 THEN IdentityQuat
    ELSE With2(sub(rest[kids[1]], rest[joint]),
               sub(cur[kids[1]], cur[joint]),
               LAMBDA restDir, curDir :
                 With2(len(restDir), len(curDir), LAMBDA lr, lc :
                   IF (Finite(lr) /\ lr < 1) \/ (Finite(lc) /\ lc < 1)
                   THEN IdentityQuat
                   ELSE quatFromTo(restDir, curDir))))

\* Lines of the BVH text.  A line is a record: what it says (kind), about
\* what (arg) and how deep it is indented.
Line(kind, arg, indent) == [kind |-> kind, arg |-> arg, indent |-> indent]
RootChannels == <<"Xposition", "Yposition", "Zposition", "Zrotation", "Xrotation", "Yrotation">>
JointChannels == <<"Zrotation", "Xrotation", "Yrotation">>
OffsetLine(x, y, z, indent) == Line("OFFSET", <<x, y, z>>, indent)

RECURSIVE writeJoint(_, _, _)
RECURSIVE writeKids(_, _, _)
writeJoint(offsets, name, indent) ==
  With(childrenOf(name), LAMBDA kids :
    IF Len(kids) = 0
    THEN <<Line("End Site", name, indent),
           Line("{", name, indent),
           OffsetLine(Num(0), Num(0), Num(0), indent + 1),
           Line("}", name, indent)>>
    ELSE writeKids(offsets, kids, indent))
writeKids(offsets, kids, indent) ==
  IF kids = <<>> THEN <<>>
  ELSE With2(Head(kids), Tail(kids), LAMBDA k, others :
         <<Line("JOINT", k, indent),
           Line("{", k, indent),
           OffsetLine(fmt(Num(offsets[k].x)), fmt(Num(offsets[k].y)),
                      fmt(Num(offsets[k].z)), indent + 1),
           Line("CHANNELS", JointChannels, indent + 1)>>
         \o writeJoint(offsets, k, indent + 1)
         \o <<Line("}", k, indent)>>
         \o writeKids(offsets, others, indent))

writeHierarchy(offsets) ==
  <<Line("HIERARCHY", getRoot, 0),
    Line("ROOT", getRoot, 0),
    Line("{", getRoot, 0),
    OffsetLine(Num(0), Num(0), Num(0), 1),
    Line("CHANNELS", RootChannels, 1)>>
  \o writeJoint(offsets, getRoot, 1)
  \o <<Line("}", getRoot, 0)>>

\* 1 / fps printed with six decimals, in microseconds; fps is the fraction n / d.
FrameTime(fps) == (2 * 1000000 * fps.d + fps.n) \div (2 * fps.n)

RECURSIVE pushJoint(_, _, _)
RECURSIVE pushKids(_, _, _)
pushJoint(rest, cur, j) == pushKids(rest, cur, childrenOf(j))
pushKids(rest, cur, kids) ==
  IF kids = <<>> THEN <<>>
  ELSE With2(Head(kids), Tail(kids), LAMBDA k, others :
         With(quatToEulerZXYDeg(localRotation(rest, cur, k)), LAMBDA e :
           <<[joint |-> k, values |-> <<e.z, e.x, e.y>>]>>
           \o pushJoint(rest, cur, k)
           \o pushKids(rest, cur, others)))

\* Every value of a row passed through its formatter.
Formatted(row, F(_)) ==
  [i \in 1..Len(row) |->
     [joint |-> row[i].joint,
      values |-> [k \in 1..Len(row[i].values) |-> F(row[i].values[k])]]]

\* The values of one motion line, joint by joint, each printed by fmt.
MotionRow(rest, restRoot, cur) ==
  With2(sub(cur[getRoot], restRoot),
        quatToEulerZXYDeg(localRotation(rest, cur, getRoot)),
        LAMBDA rootPos, re :
          With(<<[joint |-> getRoot,
                  values |-> <<Num(rootPos.x), Num(rootPos.y), Num(rootPos.z),
                               re.z, re.x, re.y>>]>>
               \o pushJoint(rest, cur, getRoot),
               LAMBDA row : Formatted(row, fmt)))

writeMotion(frames, rest, fps) ==
  With(mp33ToJointPose(frames[1].landmarks)[getRoot], LAMBDA restRoot :
    <<Line("MOTION", getRoot, 0),
      Line("Frames", Len(frames), 0),
      Line("Frame Time", FrameTime(fps), 0)>>
    \o [i \in 1..Len(frames) |->
          With(mp33ToJointPose(frames[i].landmarks), LAMBDA cur :
            Line("row", MotionRow(rest, restRoot, cur), 0))])

\* Mutant of NoFramesError: nothing is thrown.
NothingThrown == ""

\* throw new Error("No frames")
NoFramesError == "No frames"

\* BVHWriter.fromMediapipePoseFrames(frames, {fps}): the text, or the error
\* thrown.  No fps option means 30.
DefaultFps == 30
fromMediapipePoseFrames(frames, fps) ==
  IF Len(frames) = 0 THEN [error |-> NoFramesError, text |-> <<>>]
  ELSE With(mp33ToJointPose(frames[1].landmarks), LAMBDA rest :
         With(buildRestOffsets(rest), LAMBDA offsets :
           [error |-> "", text |-> writeHierarchy(offsets) \o writeMotion(frames, rest, fps)]))

\* -------------------------------------------- TakeExporter.ts: buildBVH
\* The exporter has its own copies of the vector functions (vSub, vDot,
\* vCross, vLen, vNorm); they compute what sub, dot, cross, len and norm do.
qNorm(q) ==
  With(q, LAMBDA p :
    IF ~FiniteQuat(p) THEN quat(NaN, NaN, NaN, NaN)
    ELSE IF NormSq(p) = 0 THEN IdentityQuat
    ELSE Reduced(p))

qFromTo(from, to) ==
  With2(norm(from), norm(to), LAMBDA f, t :
    \* d = vDot(f, t) = dn / D
    With2(f.d * t.d, dot(f.v, t.v), LAMBDA D, dn :
      IF ~Finite(dn) THEN quat(NaN, NaN, NaN, NaN)
      ELSE IF 1000000 * dn > 999999 * D THEN IdentityQuat
      ELSE IF 1000000 * dn < -999999 * D
      THEN With(norm(IF 10 * Abs(f.v.x) < 9 * f.d
                     THEN cross(f.v, v3(1, 0, 0))
                     ELSE cross(f.v, v3(0, 1, 0))).v,
                LAMBDA axis : qNorm(quat(0, axis.x, axis.y, axis.z)))
      ELSE With(cross(f.v, t.v),
                LAMBDA axis : qNorm(quat(D + dn, axis.x, axis.y, axis.z)))))

\* For a NaN quaternion ex is NaN, Math.abs(cx) > 1e-6 is false, and the
\* else branch gives ez = atan2(0, NaN) = NaN and ey = 0.
quatToEulerZXY(qIn) ==
  With(qNorm(qIn), LAMBDA q :
    IF ~FiniteQuat(q) THEN [x |-> Num(NaN), y |-> Num(0), z |-> Num(NaN)]
    ELSE
    LET n == NormSq(q)
        m00 == n - 2 * (q.y * q.y + q.z * q.z)
        m01 == 2 * (q.x * q.y - q.z * q.w)
        m11 == n - 2 * (q.x * q.x + q.z * q.z)
        m20 == 2 * (q.x * q.z - q.y * q.w)
        m21 == 2 * (q.y * q.z + q.x * q.w)
        m22 == n - 2 * (q.x * q.x + q.y * q.y)
    IN IF Abs(m21) # n
       THEN [x |-> AsinDeg(m21, n), y |-> Atan2Deg(-m20, m22), z |-> Atan2Deg(-m01, m11)]
       ELSE [x |-> AsinDeg(m21, n), y |-> Num(0), z |-> Atan2Deg(0, m00)])

\* n / d printed by toFixed(6): sign, integer part, millionths.
ToFixed6(n, d) ==
  With2(Abs(n) \div d, (2 * 1000000 * (Abs(n) % d) + d) \div (2 * d), LAMBDA whole, micro :
    [fn |-> "fixed6", neg |-> n < 0,
     a |-> IF micro = 1000000 THEN whole + 1 ELSE whole,
     b |-> IF micro = 1000000 THEN 0 ELSE micro])

\* buildRigPose: joint positions centred at the hips, divided by the shoulder
\* width, y flipped.  The result is the fraction pos[j] / den per coordinate:
\* with the shoulder width w in hundredths, scale = 1 / Math.max(1e-4, w / 100).
buildRigPose(frame) ==
  LET pt(i) == With(lmAt(frame.landmarks, i), LAMBDA lm : v3(lm.x, lm.y, lm.z)) IN
  With2(midpoint(pt(MP33.LEFT_HIP), pt(MP33.RIGHT_HIP)),
        len(sub(pt(MP33.LEFT_SHOULDER), pt(MP33.RIGHT_SHOULDER))),
        LAMBDA hips, width :
    LET k == IF Finite(width) /\ width = 0 THEN 1000 ELSE 10
        \* vMul(a, 0.6), exact on multiples of ten
        sixTenths(a) == IF Finite(a) THEN CASE (6 * a) % 10 = 0 -> (6 * a) \div 10 ELSE NaN
        toSpace(p) ==
          With(sub(p, hips), LAMBDA c :
            IF ~Finite(width) THEN NaNVec
            ELSE v3(NumMul(c.x, k), NumMul(NumSub(0, c.y), k), NumMul(c.z, k)))
    IN
    With(toSpace(midpoint(pt(MP33.LEFT_SHOULDER), pt(MP33.RIGHT_SHOULDER))), LAMBDA Neck :
      [den |-> IF ~Finite(width) THEN 1 ELSE IF width = 0 THEN 10 ELSE 10 * width,
       pos |-> [Hips |-> ZeroVec,
                Neck |-> Neck,
                Spine |-> v3(sixTenths(Neck.x), sixTenths(Neck.y), sixTenths(Neck.z)),
                Head |-> toSpace(pt(MP33.NOSE)),
                LeftShoulder |-> toSpace(pt(MP33.LEFT_SHOULDER)),
                LeftElbow |-> toSpace(pt(MP33.LEFT_ELBOW)),
                LeftWrist |-> toSpace(pt(MP33.LEFT_WRIST)),
                RightShoulder |-> toSpace(pt(MP33.RIGHT_SHOULDER)),
                RightElbow |-> toSpace(pt(MP33.RIGHT_ELBOW)),
                RightWrist |-> toSpace(pt(MP33.RIGHT_WRIST)),
                LeftHip |-> toSpace(pt(MP33.LEFT_HIP)),
                LeftKnee |-> toSpace(pt(MP33.LEFT_KNEE)),
                LeftAnkle |-> toSpace(pt(MP33.LEFT_ANKLE)),
                RightHip |-> toSpace(pt(MP33.RIGHT_HIP)),
                RightKnee |-> toSpace(pt(MP33.RIGHT_KNEE)),
                RightAnkle |-> toSpace(pt(MP33.RIGHT_ANKLE))]]))

buildChildren == [j \in JointName |-> childrenOf(j)]

parentOf(j) == RigNode(j).parent

RECURSIVE dfs(_)
RECURSIVE dfsKids(_)
dfs(j) == dfsKids(buildChildren[j])
dfsKids(kids) ==
  IF kids = <<>> THEN <<>>
  ELSE With2(Head(kids), Tail(kids), LAMBDA c, others :
         <<c>> \o dfs(c) \o dfsKids(others))

\* Mutant of bvhOrder: the joints below the root from the last of RIG to the first.
RigBackwards == [i \in 1..(Len(RIG) - 1) |-> RIG[Len(RIG) + 1 - i].name]

bvhOrder == dfs("Hips")

\* SafeFixed6 is safe(v).toFixed(6) of an offset coordinate n / den.
RECURSIVE emitJoint(_, _, _)
RECURSIVE emitKids(_, _, _, _)
emitJoint(joint, indent, rest) == emitKids(joint, buildChildren[joint], indent, rest)
emitKids(joint, kids, indent, rest) ==
  IF kids = <<>> THEN <<>>
  ELSE With2(Head(kids), Tail(kids), LAMBDA c, others :
         With(sub(rest.pos[c], rest.pos[joint]), LAMBDA off :
           LET SafeFixed6(n, den) == IF Finite(n) THEN ToFixed6(n, den) ELSE ToFixed6(0, 1) IN
           <<Line("JOINT", c, indent),
             Line("{", c, indent),
             OffsetLine(SafeFixed6(off.x, rest.den), SafeFixed6(off.y, rest.den),
                        SafeFixed6(off.z, rest.den), indent + 1),
             Line("CHANNELS", JointChannels, indent + 1)>>
           \o emitJoint(c, indent + 1, rest)
           \o (IF Len(buildChildren[c]) = 0
               THEN <<Line("End Site", c, indent + 1),
                      Line("{", c, indent + 1),
                      OffsetLine(Num(0), Num(0), Num(0), indent + 2),
                      Line("}", c, indent + 1)>>
               ELSE <<>>)
           \o <<Line("}", c, indent)>>
           \o emitKids(joint, others, indent, rest)))

emitHierarchy(rest) ==
  <<Line("HIERARCHY", "Hips", 0),
    Line("ROOT", "Hips", 0),
    Line("{", "Hips", 0),
    OffsetLine(Num(0), Num(0), Num(0), 1),
    Line("CHANNELS", RootChannels, 1)>>
  \o emitJoint("Hips", 1, rest)
  \o <<Line("}", "Hips", 0)>>

\* Number.isFinite(n) ? n.toFixed(6) : "0.000000"
FiniteOrZero(v) == IF v.fn = "num" /\ ~Finite(v.a) THEN Num(0) ELSE v

\* One motion line of buildBVH, joint by joint: zeros for the root, then
\* for every joint of bvhOrder the rotation of its bone from the rest pose.
BuildRow(rest, pose) ==
  With(SelectSeq(bvhOrder, LAMBDA j : parentOf(j) # NoParent), LAMBDA joints :
    LET rot(j) ==
          With(quatToEulerZXY(qFromTo(sub(rest.pos[j], rest.pos[parentOf(j)]),
                                      sub(pose.pos[j], pose.pos[parentOf(j)]))),
               LAMBDA e : <<e.z, e.x, e.y>>)
    IN With(<<[joint |-> "Hips",
               values |-> <<Num(0), Num(0), Num(0), Num(0), Num(0), Num(0)>>]>>
            \o [i \in 1..Len(joints) |-> [joint |-> joints[i], values |-> rot(joints[i])]],
            LAMBDA row : Formatted(row, FiniteOrZero)))

\* buildBVH(frames, fps): the lines of the text (joined with "\n").
\* rest = poses[0] ?? {}: without frames every rest[j] ?? {0, 0, 0} is zero.
buildBVH(frames, fps) ==
  With([i \in 1..Len(frames) |-> buildRigPose(frames[i])], LAMBDA poses :
    With(IF Len(poses) > 0 THEN poses[1] ELSE [den |-> 1, pos |-> [j \in JointName |-> ZeroVec]], LAMBDA rest :
      emitHierarchy(rest)
      \o <<Line("MOTION", "Hips", 0),
           Line("Frames", Len(poses), 0),
           Line("Frame Time", FrameTime(fps), 0)>>
      \o [i \in 1..Len(poses) |-> Line("row", BuildRow(rest, poses[i]), 0)]))

\* ------------------------------------------------- inputs of the exporter
\* Landmark buffers as the stream source builds them (landmarksToBuffer):
\* 33 landmarks, zero where the detector reported none.  pts maps a landmark
\* index to <<x, y, z, confidence>> in hundredths.
DEFAULT_LM_COUNT == 33
Buffer(pts) ==
  [k \in 1..(DEFAULT_LM_COUNT * LANDMARK_STRIDE) |->
     LET i == (k - 1) \div LANDMARK_STRIDE
         f == ((k - 1) % LANDMARK_STRIDE) + 1
     IN IF i \in DOMAIN pts THEN pts[i][f] ELSE 0]

\* A person standing with the arms stretched out sideways.
TPosePoints ==
  (0 :> <<50, 20, 0, 90>>) @@
  (11 :> <<60, 30, 0, 90>>) @@ (12 :> <<40, 30, 0, 90>>) @@
  (13 :> <<70, 30, 0, 90>>) @@ (14 :> <<30, 30, 0, 90>>) @@
  (15 :> <<80, 30, 0, 90>>) @@ (16 :> <<20, 30, 0, 90>>) @@
  (23 :> <<60, 60, 0, 90>>) @@ (24 :> <<40, 60, 0, 90>>) @@
  (25 :> <<60, 76, 0, 90>>) @@ (26 :> <<40, 76, 0, 90>>) @@
  (27 :> <<60, 90, 0, 90>>) @@ (28 :> <<40, 90, 0, 90>>)
TPose == Buffer(TPosePoints)
\* The left arm raised straight up.
ArmUp == Buffer((13 :> <<60, 20, 0, 90>>) @@ (15 :> <<60, 10, 0, 90>>) @@ TPosePoints)
\* No landmark detected.
Blank == Buffer(<<>>)

\* The poses given to the writers: the three above, the left arm hanging
\* straight down, the T pose one tenth of the image further to the right and
\* lower, and a buffer that ends after the shoulders.
Poses ==
  {TPose, ArmUp, Blank,
   Buffer((13 :> <<60, 40, 0, 90>>) @@ (15 :> <<60, 50, 0, 90>>) @@ TPosePoints),
   Buffer([i \in DOMAIN TPosePoints |->
             <<TPosePoints[i][1] + 10, TPosePoints[i][2] + 4,
               TPosePoints[i][3], TPosePoints[i][4]>>]),
   SubSeq(TPose, 1, 13 * LANDMARK_STRIDE)}

\* The fraction n / d in lowest terms, the denominator positive.
Frac(n, d) ==
  With(Gcd[Abs(n), Abs(d)], LAMBDA g :
    [n |-> (IF d < 0 THEN -n ELSE n) \div g, d |-> Abs(d) \div g])

\* ------------------------------------------------------- BVH writers alone
MaxBvhFrames == 2     \* frames in a list given to a BVH writer
TsStep == 1000        \* frame i of a list has timestamp i * TsStep

FrameLists(n) ==
  UNION {{[i \in 1..m |-> [ts |-> i * TsStep, landmarks |-> bufs[i]]] :
            bufs \in [1..m -> Poses]} : m \in 0..n}

FpsOptions == {Frac(DefaultFps, 1), Frac(24, 1)}

BvhInit ==
  /\ RecorderInit /\ SmootherUnused /\ StoreUnused /\ EngineUnused
  /\ bvhFrames \in FrameLists(MaxBvhFrames)
  /\ bvhText = NoCall

\* BVHWriter.fromMediapipePoseFrames(frames, {fps})
WriteBvh(fps) ==
  /\ bvhText' = <<[writer |-> "BVHWriter"] @@ fromMediapipePoseFrames(bvhFrames, fps)>>
  /\ UNCHANGED bvhFrames

\* buildBVH(frames, fps) of the take exporter
BuildBvh(fps) ==
  /\ bvhText' = <<[writer |-> "buildBVH", error |-> "", text |-> buildBVH(bvhFrames, fps)]>>
  /\ UNCHANGED bvhFrames

NextBvh ==
  \/ \E fps \in FpsOptions : WriteBvh(fps) /\ UNCHANGED <<recorder, smooth, store, engine, poseRunner>>
  \/ \E fps \in FpsOptions : BuildBvh(fps) /\ UNCHANGED <<recorder, smooth, store, engine, poseRunner>>

SpecBvh == BvhInit /\ [][NextBvh]_vars


\* ---------------------------------------- TakeRepo.fs.ts, TakeExporter.ts
\* One take on disk: meta.json (metaFile), frames.jsonl (framesFile) and the
\* files of its export (exportFiles).  result is the outcome of the last call,
\* sent the frames given to appendFrames so far.
\*
\* JSON.stringify of a number: NaN and the infinities are written as null.
JsonNum(v) == IF Finite(v) THEN [null |-> FALSE, n |-> v] ELSE [null |-> TRUE, n |-> 0]

\* JSON.stringify({ts: f.ts, lm: Array.from(f.landmarks)})
FrameLine(f) ==
  [ts |-> JsonNum(f.ts),
   lm |-> [i \in 1..Len(f.landmarks) |-> JsonNum(f.landmarks[i])]]

\* {ts: j.ts, landmarks: new Float32Array(j.lm)} of a parsed line: the typed
\* array turns null into 0.  Timestamps are finite, so j.ts is a number.
ParsedFrame(j) ==
  [ts |-> j.ts.n,
   landmarks |-> [i \in 1..Len(j.lm) |-> IF j.lm[i].null THEN 0 ELSE j.lm[i].n]]

readTakeFrames(file) ==
  IF file = NoFile THEN <<>>
  ELSE [i \in 1..Len(file[1]) |-> ParsedFrame(file[1][i])]

\* Mutant of estimateFps: the timestamps are never looked at.
NeverEstimated(frames) == <<>>

\* (frames.length - 1) / (dt / 1000), or null (<<>>)
estimateFps(frames) ==
  IF Len(frames) < 2 THEN <<>>
  ELSE With(frames[Len(frames)].ts - frames[1].ts, LAMBDA dt :
         IF dt <= 0 THEN <<>> ELSE <<Frac(1000 * (Len(frames) - 1), dt)>>)

MaxChunks == 2          \* appendFrames calls that store frames
MaxExportFrames == 4    \* frames of a take that is exported

\* The landmark buffers of the chunks given to appendFrames: none, one frame,
\* two frames of which the second has NaN as the z of the nose
\* (landmarksToBuffer passes any z of type number on), and thirty frames without a person.
ChunkOptions ==
  {<<>>, <<TPose>>, <<ArmUp, [TPose EXCEPT ![3] = NaN]>>, [i \in 1..30 |-> Blank]}

\* firstTs and lastTs of a finalizeTake call
TsOptions == {0, 1000, 2000}

\* ---------------------------------------------------- takeRepo (MMKV)
\* The storage holds the index (take ids, newest first), the metadata by
\* take id and the chunks by take id and chunk number; made counts the takes
\* created so far and stands for the clock and random number of newTake:
\* every take gets an id of its own.
MaxRepoTakes == 2     \* takes created in the storage
MaxChunkNo == 2       \* chunk numbers given to appendFrames are 0..MaxChunkNo
MaxRepoFrames == 2    \* appendFrames stores frames in a take that has fewer than this

EmptyStorage == [index |-> <<>>, meta |-> <<>>, chunk |-> <<>>, made |-> 0]
NoStorage == <<>>

Without(f, keys) == [k \in (DOMAIN f) \ keys |-> f[k]]

\* getJson<Take>(K.meta(id)): <<>> is undefined
\* Mutant of getTake: an id without metadata gives a new take.
getTakeOrNew(st, id) ==
  IF id \in DOMAIN st.meta THEN <<st.meta[id]>> ELSE <<[id |-> id] @@ NewTake>>

getTake(st, id) == IF id \in DOMAIN st.meta THEN <<st.meta[id]>> ELSE <<>>

\* the takes of the index that have metadata
listTakes(st) ==
  With(SelectSeq(st.index, LAMBDA id : getTake(st, id) # <<>>), LAMBDA ids :
    [i \in 1..Len(ids) |-> st.meta[ids[i]]])

getChunk(st, id, n) == IF <<id, n>> \in DOMAIN st.chunk THEN <<st.chunk[<<id, n>>]>> ELSE <<>>

\* Mutant of ChunkKeys: the loop stops one chunk early.
AllButLastChunk(take) == {<<take.id, i>> : i \in 0..(take.chunkCount - 2)}

\* for (let i = 0; i < take.chunkCount; i++) remove(K.chunk(takeId, i))
ChunkKeys(take) == {<<take.id, i>> : i \in 0..(take.chunkCount - 1)}

\* takeRepo.createTake(): upsertIndex(take.id), setJson(K.meta(take.id), take)
KvCreateTake ==
  \E id \in {mmkv[1].made + 1} :
  /\ id <= MaxRepoTakes
  /\ mmkv' = <<[mmkv[1] EXCEPT
                  !.index = IF \E i \in 1..Len(@) : @[i] = id THEN @ ELSE <<id>> \o @,
                  !.meta = (id :> ([id |-> id] @@ NewTake)) @@ @,
                  !.made = id]>>
  /\ result' = <<[op |-> "takeRepo.createTake", id |-> id, error |-> ""]>>

\* takeRepo.appendFrames(takeId, chunkNumber, frames)
KvAppendFrames(id, chunkNumber, frames) ==
  IF getTake(mmkv[1], id) = <<>>
  THEN /\ result' = <<[op |-> "takeRepo.appendFrames", id |-> id, error |-> "Take not found"]>>
       /\ UNCHANGED mmkv
  ELSE IF Len(frames) = 0
  THEN /\ result' = <<[op |-> "takeRepo.appendFrames", id |-> id, error |-> "",
                       frameCount |-> 0]>>
       /\ UNCHANGED mmkv
  ELSE \E take \in {getTake(mmkv[1], id)[1]} :
       /\ take.frameCount < MaxRepoFrames
       /\ mmkv' = <<[mmkv[1] EXCEPT
                       !.chunk = (<<id, chunkNumber>> :>
                                    [n |-> chunkNumber, startTs |-> JsonNum(frames[1].ts),
                                     endTs |-> JsonNum(frames[Len(frames)].ts),
                                     frames |-> [i \in 1..Len(frames) |->
                                                   [ts |-> JsonNum(frames[i].ts),
                                                    landmarks |-> [k \in 1..Len(frames[i].landmarks) |->
                                                                     JsonNum(frames[i].landmarks[k])]]]])
                                 @@ @,
                       !.meta = (id :> [take EXCEPT !.frameCount = @ + Len(frames),
                                                     !.chunkCount = Max(@, chunkNumber + 1)]) @@ @]>>
       /\ result' = <<[op |-> "takeRepo.appendFrames", id |-> id, error |-> "",
                       frameCount |-> Len(frames)]>>

\* takeRepo.finalizeTake(takeId, firstTs, lastTs)
KvFinalizeTake(id, firstTs, lastTs) ==
  IF getTake(mmkv[1], id) = <<>>
  THEN /\ result' = <<[op |-> "takeRepo.finalizeTake", id |-> id, error |-> "Take not found"]>>
       /\ UNCHANGED mmkv
  ELSE /\ mmkv' = <<[mmkv[1] EXCEPT
                       !.meta = (id :> Finalized(getTake(mmkv[1], id)[1], firstTs, lastTs)) @@ @]>>
       /\ result' = <<[op |-> "takeRepo.finalizeTake", id |-> id, error |-> ""]>>

\* takeRepo.deleteTake(takeId)
KvDeleteTake(id) ==
  /\ IF getTake(mmkv[1], id) = <<>>
     THEN UNCHANGED mmkv
     ELSE mmkv' = <<[mmkv[1] EXCEPT
                       !.chunk = Without(@, ChunkKeys(getTake(mmkv[1], id)[1])),
                       !.meta = Without(@, {id}),
                       !.index = SelectSeq(@, LAMBDA x : x # id)]>>
  /\ result' = <<[op |-> "takeRepo.deleteTake", id |-> id, error |-> "", before |-> mmkv]>>

\* The persistence port is takeRepoFs, and createTake has written meta.json
\* and an empty frames.jsonl; or it is takeRepo on an empty storage.
StoreInit ==
  /\ RecorderInit /\ SmootherUnused /\ BvhUnused /\ EngineUnused
  /\ \/ metaFile = File(NewTake) /\ framesFile = File(<<>>) /\ mmkv = NoStorage
     \/ metaFile = NoFile /\ framesFile = NoFile /\ mmkv = <<EmptyStorage>>
  /\ exportFiles = [json |-> NoFile, bvh |-> NoFile]
  /\ result = NoCall
  /\ sent = <<>>
  /\ fsCalls = <<>>

\* The take is recorded and finalized before it is exported.
NotExported == exportFiles = [json |-> NoFile, bvh |-> NoFile]

\* The frames of a chunk are `step` milliseconds apart, the first that far
\* after the last frame stored; a source that stamps the two frames of its
\* first chunk alike has step 0.
TsSteps == {0, TsStep}
LastTs(frames) == IF frames = <<>> THEN 0 ELSE frames[Len(frames)].ts

\* takeRepoFs.appendFrames(id, chunkNumber, frames)
AppendFrames(bufs, step) ==
  /\ mmkv = NoStorage /\ NotExported
  /\ IF metaFile = NoFile
     THEN /\ result' = <<[op |-> "appendFrames", error |-> "Take not found"]>>
          /\ UNCHANGED <<metaFile, framesFile, sent>>
     ELSE \E take \in {metaFile[1]},
             frames \in {[i \in 1..Len(bufs) |->
                            [ts |-> LastTs(sent) + i * step, landmarks |-> bufs[i]]]} :
          /\ take.chunkCount < MaxChunks
          /\ IF Len(frames) = 0
             THEN /\ result' = <<[op |-> "appendFrames", startTs |-> 0, endTs |-> 0,
                                  frameCount |-> 0]>>
                  /\ UNCHANGED <<metaFile, framesFile, sent>>
             ELSE /\ framesFile' = File((IF framesFile = NoFile THEN <<>> ELSE framesFile[1])
                                        \o [i \in 1..Len(frames) |-> FrameLine(frames[i])])
                  /\ metaFile' = File([take EXCEPT !.frameCount = @ + Len(frames),
                                                   !.chunkCount = Max(@, take.chunkCount + 1)])
                  /\ sent' = sent \o frames
                  /\ result' = <<[op |-> "appendFrames", startTs |-> frames[1].ts,
                                  endTs |-> frames[Len(frames)].ts,
                                  frameCount |-> Len(frames)]>>
  /\ UNCHANGED <<exportFiles, mmkv>>

\* takeRepoFs.finalizeTake(id, firstTs, lastTs)
FinalizeTake(firstTs, lastTs) ==
  /\ mmkv = NoStorage /\ NotExported
  /\ IF metaFile = NoFile
     THEN /\ result' = <<[op |-> "finalizeTake", error |-> "Take not found"]>>
          /\ UNCHANGED metaFile
     ELSE /\ metaFile' = File(Finalized(metaFile[1], firstTs, lastTs))
          /\ result' = <<[op |-> "finalizeTake", error |-> "",
                          firstTs |-> firstTs, lastTs |-> lastTs,
                          before |-> metaFile[1], returned |-> metaFile'[1]]>>
  /\ UNCHANGED <<framesFile, exportFiles, sent, mmkv>>

\* takeRepoFs.getTake(id) and listTakes() of the one take: readJson gives
\* undefined (<<>>) for a file that is not there.
FsGetTake == IF metaFile = NoFile THEN <<>> ELSE <<metaFile[1]>>
FsListTakes == FsGetTake

\* takeRepoFs.deleteTake(id): the take's directory goes with all it holds.
DeleteTake ==
  /\ mmkv = NoStorage
  /\ metaFile' = NoFile
  /\ framesFile' = NoFile
  /\ result' = <<[op |-> "deleteTake", error |-> "",
                  before |-> [metaFile |-> metaFile, framesFile |-> framesFile]]>>
  /\ UNCHANGED <<exportFiles, sent, mmkv>>

\* Mutant of DefaultFormat: without a format only the JSON file is written.
JsonOnly == "json"

\* opts?.format ?? "both"
DefaultFormat == "both"

\* ensureExportDir(), and `${exportDir}${baseName}.<ext>`
ExportDir == "exports/"
ExportPath(ext) == [dir |-> ExportDir, ext |-> ext]

\* TakeExporter.exportTake(id, {format, includeFramesInJson, bvhFps}); an
\* option that is not given is <<>>.  The result has a path for every file
\* written.
ExportTake(formatOpt, includeOpt, bvhFps) ==
  /\ mmkv = NoStorage /\ metaFile # NoFile /\ NotExported
  /\ \E format \in {IF formatOpt = <<>> THEN DefaultFormat ELSE formatOpt[1]},
        includeFramesInJson \in {IF includeOpt = <<>> THEN TRUE ELSE includeOpt[1]} :
     \E frames \in {readTakeFrames(framesFile)} :
     \E fps \in {IF bvhFps # <<>> THEN bvhFps[1]
                 ELSE IF estimateFps(frames) # <<>> THEN estimateFps(frames)[1]
                 ELSE Frac(DefaultFps, 1)} :
     LET json == [schema |-> "mocap.take.v1", take |-> metaFile[1],
                  frames |-> IF includeFramesInJson
                             THEN [i \in 1..Len(frames) |-> FrameLine(frames[i])]
                             ELSE <<>>]
         withJson == format \in {"json", "both"}
         withBvh == format \in {"bvh", "both"}
     IN
     /\ Len(frames) <= MaxExportFrames
     /\ exportFiles' = [json |-> IF withJson THEN File(json) ELSE exportFiles.json,
                        bvh |-> IF withBvh THEN File(buildBVH(frames, fps)) ELSE exportFiles.bvh]
     /\ result' = <<[op |-> "exportTake", format |-> format, frames |-> Len(frames),
                     opts |-> [format |-> formatOpt, includeFramesInJson |-> includeOpt,
                               bvhFps |-> bvhFps],
                     fps |-> fps,
                     error |-> "",
                     exportDir |-> ExportDir,
                     jsonPath |-> IF withJson THEN <<ExportPath("json")>> ELSE <<>>,
                     bvhPath |-> IF withBvh THEN <<ExportPath("bvh")>> ELSE <<>>]>>
     /\ UNCHANGED <<metaFile, framesFile, sent, mmkv>>

\* The frames given to takeRepo.appendFrames: none, one or two, of one landmark.
RepoFrames ==
  {<<>>, <<[ts |-> 1000, landmarks |-> <<50, 20, 0, 90>>]>>,
   <<[ts |-> 2000, landmarks |-> <<50, 20, NaN, 90>>],
     [ts |-> 3000, landmarks |-> <<60, 20, 0, 90>>]>>}

\* A call on the MMKV repository leaves the files alone.
OnStorage(call) ==
  /\ mmkv # NoStorage
  /\ call
  /\ UNCHANGED <<metaFile, framesFile, exportFiles, sent, fsCalls, recorder, smooth, bvh, engine, poseRunner>>

NextStore ==
  \/ \E bufs \in ChunkOptions, step \in TsSteps :
       /\ step = TsStep \/ (sent = <<>> /\ Len(bufs) = 2)
       /\ AppendFrames(bufs, step) /\ UNCHANGED <<recorder, smooth, bvh, engine, poseRunner, fsCalls>>
  \/ \E firstTs, lastTs \in TsOptions :
       FinalizeTake(firstTs, lastTs) /\ UNCHANGED <<recorder, smooth, bvh, engine, poseRunner, fsCalls>>
  \/ \E format \in {<<>>, <<"json">>, <<"bvh">>, <<"both">>},
        includeFramesInJson \in {<<>>, <<FALSE>>},
        bvhFps \in {<<>>, <<Frac(24, 1)>>} :
       ExportTake(format, includeFramesInJson, bvhFps) /\ UNCHANGED <<recorder, smooth, bvh, engine, poseRunner, fsCalls>>
  \/ DeleteTake /\ UNCHANGED <<recorder, smooth, bvh, engine, poseRunner, fsCalls>>
  \/ OnStorage(KvCreateTake)
  \/ \E id \in 1..MaxRepoTakes, n \in 0..MaxChunkNo, frames \in RepoFrames :
       OnStorage(KvAppendFrames(id, n, frames))
  \/ \E id \in 1..MaxRepoTakes : OnStorage(KvFinalizeTake(id, 1000, 3000))
  \/ \E id \in 1..MaxRepoTakes : OnStorage(KvDeleteTake(id))

SpecStore == StoreInit /\ [][NextStore]_vars


\* --------------------------------------- OneEuroFilter.ts, PoseSmoother.ts
\* Numbers of the filter are exact fractions [n, d]; landmark values and
\* confidences are in hundredths.  A cutoff is held as the angular frequency
\* 2 * pi * cutoff, so that alpha = 1 / (1 + tau / te) = cutoff / (cutoff + freq)
\* is a fraction.  The output buffer holds the filter's results as they are
\* (the rounding of a Float32Array element is left out).  null is <<>>.
RAdd(p, q) ==
  With(Gcd[p.d, q.d], LAMBDA g :
    Frac(p.n * (q.d \div g) + q.n * (p.d \div g), (p.d \div g) * q.d))
RMul(p, q) ==
  With2(Gcd[Abs(p.n), q.d], Gcd[Abs(q.n), p.d], LAMBDA g, h :
    Frac((p.n \div g) * (q.n \div h), (p.d \div h) * (q.d \div g)))

alpha(cutoff, freq) ==
  With(RAdd(cutoff, freq), LAMBDA sum : Frac(cutoff.n * sum.d, cutoff.d * sum.n))

\* Mutant of LowPassFilter: the first call blends x with zero.
LowPassFromZero(lp, x, a) ==
  With(IF lp.y = <<>> THEN RMul(a, x)
       ELSE RAdd(RMul(a, x), RMul(RAdd(Frac(1, 1), RMul(Frac(-1, 1), a)), lp.s[1])),
       LAMBDA s : [lp |-> [y |-> <<x>>, s |-> <<s>>], out |-> s])

\* LowPass.filter(x, a) on the state lp = [y, s]: the new state and the result.
LowPassFilter(lp, x, a) ==
  IF lp.y = <<>> THEN [lp |-> [y |-> <<x>>, s |-> <<x>>], out |-> x]
  ELSE With(RAdd(RMul(a, x), RMul(RAdd(Frac(1, 1), RMul(Frac(-1, 1), a)), lp.s[1])),
            LAMBDA s : [lp |-> [y |-> <<x>>, s |-> <<s>>], out |-> s])

\* OneEuroFilter1D.filter(value, tsMs) on the filter f = [x, dx, lastTs] with
\* the params object it shares with the other axes of its landmark: the new
\* filter, the params and the result.  dt > 0.0001 s is, of whole
\* milliseconds, tsMs - lastTs >= 1.
Filter1D(f, params, value, tsMs) ==
  With(IF f.lastTs # <<>> /\ tsMs - f.lastTs[1] >= 1
       THEN [params EXCEPT !.freq = Frac(1000, tsMs - f.lastTs[1])]
       ELSE params,
       LAMBDA p :
    With(IF f.x.s = <<>> THEN Frac(0, 1)
         ELSE RMul(RAdd(value, RMul(Frac(-1, 1), f.x.s[1])), p.freq),
         LAMBDA dValue :
      With(LowPassFilter(f.dx, dValue, alpha(p.dCutoff, p.freq)), LAMBDA ed :
        With(RAdd(p.minCutoff, RMul(p.beta, Frac(Abs(ed.out.n), ed.out.d))), LAMBDA cutoff :
          With(LowPassFilter(f.x, value, alpha(cutoff, p.freq)), LAMBDA r :
            [f |-> [x |-> r.lp, dx |-> ed.lp, lastTs |-> <<tsMs>>],
             params |-> p, out |-> r.out])))))

\* new PoseSmoother(landmarkCount, {confidenceGate, beta}): per landmark one
\* params object (base) and the filters fx, fy, fz that share it.
NewSmoother(landmarkCount, confidenceGate, beta) ==
  LET lp == [y |-> <<>>, s |-> <<>>]
      f == [x |-> lp, dx |-> lp, lastTs |-> <<>>]
  IN [confidenceGate |-> confidenceGate,
      lm |-> [i \in 1..landmarkCount |->
                [params |-> [freq |-> Frac(30, 1), minCutoff |-> Frac(10, 1),
                             beta |-> beta, dCutoff |-> Frac(10, 1)],
                 fx |-> f, fy |-> f, fz |-> f]]]

\* Mutant of NewBuffer: the output is written into the input buffer.
SameBuffer(raw) == [fresh |-> FALSE, data |-> raw]

\* new Float32Array(raw): another buffer with the same elements
NewBuffer(raw) == [fresh |-> TRUE, data |-> raw]

\* Mutant of Gated: a confidence equal to the gate is gated too.
GatedAtGate(c, confidenceGate) == c.n <= confidenceGate * c.d

\* c < this.params.confidenceGate
Gated(c, confidenceGate) == c.n < confidenceGate * c.d

\* PoseSmoother.filter(raw, ts) on the smoother sm: the smoother afterwards,
\* the buffer returned (out), whether it is another buffer than raw (fresh),
\* and the input buffer after the call (raw).
PoseFilter(sm, raw, ts) ==
  LET n == Len(raw) \div LANDMARK_STRIDE
      gated(i) == Gated(raw[(i - 1) * LANDMARK_STRIDE + 4], sm.confidenceGate)
      one(i) ==
        With((i - 1) * LANDMARK_STRIDE, LAMBDA o :
          With(Filter1D(sm.lm[i].fx, sm.lm[i].params, raw[o + 1], ts), LAMBDA rx :
            With(Filter1D(sm.lm[i].fy, rx.params, raw[o + 2], ts), LAMBDA ry :
              With(Filter1D(sm.lm[i].fz, ry.params, raw[o + 3], ts), LAMBDA rz :
                [lm |-> [params |-> rz.params, fx |-> rx.f, fy |-> ry.f, fz |-> rz.f],
                 out |-> <<rx.out, ry.out, rz.out, raw[o + 4]>>]))))
  IN
  With2(NewBuffer(raw), [i \in 1..n |-> IF gated(i) THEN <<>> ELSE <<one(i)>>],
        LAMBDA buf, done :
    With([k \in 1..Len(raw) |->
            LET i == ((k - 1) \div LANDMARK_STRIDE) + 1 IN
            IF i <= n /\ done[i] # <<>>
            THEN done[i][1].out[((k - 1) % LANDMARK_STRIDE) + 1]
            ELSE buf.data[k]],
         LAMBDA out :
      [sm |-> [sm EXCEPT !.lm = [i \in 1..Len(sm.lm) |->
                                   IF i <= n /\ done[i] # <<>> THEN done[i][1].lm ELSE @[i]]],
       out |-> out, fresh |-> buf.fresh,
       raw |-> IF buf.fresh THEN raw ELSE out]))

MaxCalls == 3           \* filter calls on a smoother with beta = 0
MaxAdaptiveCalls == 2   \* filter calls on a smoother whose cutoff grows with the speed
JointThreshold == 50    \* the confidence gate, in hundredths

\* The values of a landmark in a frame: one place with a confidence below,
\* at and above the gate, and another place with a confidence above and
\* below it.
LmValues ==
  {<<10, 20, 30, 40>>, <<10, 20, 30, 50>>, <<10, 20, 30, 90>>,
   <<40, 10, 0, 90>>, <<40, 10, 0, 40>>}

\* handleIncomingFrame has made the smoother for the first frame; smoother is
\* the instance, filtered the list of the filter calls made on it.
SmootherInit ==
  /\ RecorderInit /\ StoreUnused /\ BvhUnused /\ EngineUnused
  /\ smoother \in {<<NewSmoother(2, JointThreshold, beta)>> : beta \in {Frac(0, 1), Frac(1, 20)}}
  /\ filtered = <<>>

\* smootherRef.current.filter(frame.landmarks, ts)
FilterCall(raw, ts) ==
  /\ Len(filtered) < (IF smoother[1].lm[1].params.beta.n = 0 THEN MaxCalls
                       ELSE MaxAdaptiveCalls)
  /\ \E r \in {PoseFilter(smoother[1], raw, ts)} :
    /\ smoother' = <<r.sm>>
    /\ filtered' = Append(filtered, [ts |-> ts, given |-> raw, raw |-> r.raw,
                                     out |-> r.out, fresh |-> r.fresh, sm |-> r.sm])

NextSmoother ==
  \E a \in LmValues, b \in {v \in LmValues : v[4] = 90}, dt \in {0, 50, 100} :
    /\ FilterCall([k \in 1..(2 * LANDMARK_STRIDE) |->
                     Frac((IF k <= LANDMARK_STRIDE THEN a ELSE b)[((k - 1) % LANDMARK_STRIDE) + 1], 1)],
                  IF filtered = <<>> THEN 1000 ELSE filtered[Len(filtered)].ts + dt)
    /\ UNCHANGED <<recorder, store, bvh, engine, poseRunner>>

SpecSmoother == SmootherInit /\ [][NextSmoother]_vars


\* ------------------------------ PoseEngine (JS), PoseEngineModule (Swift)
\* engine.calls lists the start() and stop() calls made on the wrapper, each
\* with the options given, the options passed to the native module (<<>>: no
\* native call was made), the stage its native call has reached, the native
\* session it opened and how its promise settled ("": not yet).  Thresholds
\* are in hundredths; an option that is not given is <<>>.
MaxEngineCalls == 3   \* start() and stop() calls made on the wrapper

Min(a, b) == IF a <= b THEN a ELSE b

\* Math.max(0, Math.min(1, typeof v === "number" ? v : fallback))
clamp01(v, fallback) ==
  With(IF v = <<>> THEN fallback ELSE v[1], LAMBDA n :
    IF ~Finite(n) THEN NaN ELSE Max(0, Min(100, n)))

\* A number of the options object as the native side receives it: NaN
\* arrives as NaN or, where the bridge writes it as null, as no NSNumber.
Bridged(n) == IF Finite(n) THEN {<<n>>} ELSE {<<n>>, <<>>}

\* EngineError.optionsInvalid, cameraPermissionDenied, startFailed
OptionsInvalid == "E_OPTIONS"
CameraPermissionDenied == "E_CAMERA_PERMISSION"
StartFailed == "E_START"

\* func in01(_ v: Double) -> Bool { v >= 0.0 && v <= 1.0 }
in01(v) == Finite(v) /\ v >= 0 /\ v <= 100

EngineCall(op, given, passed, stage, outcome) ==
  [op |-> op, given |-> given, passed |-> passed, stage |-> stage, session |-> 0,
   outcome |-> outcome]

\* The serial queue runs the blocks of the start and stop calls in call order.
NextOnQueue(i) ==
  /\ engine.calls[i].stage = "queued"
  /\ \A j \in 1..(i - 1) : engine.calls[j].stage # "queued"

\* PoseEngine.start(options) up to `await NativePoseEngine.start({...})`
JsStart(options) ==
  /\ Len(engine.calls) < MaxEngineCalls
  /\ IF engine.started
     THEN engine' = [engine EXCEPT !.calls =
                       Append(@, EngineCall("start", options, <<>>, "done", "resolved"))]
     ELSE \E minConfidence \in {clamp01(options.minConfidence, 50)} :
          \E minPoseConfidence \in {clamp01(options.minPoseConfidence, minConfidence)} :
          \E c \in Bridged(minConfidence), p \in Bridged(minPoseConfidence) :
            engine' = [engine EXCEPT
                         !.started = TRUE,
                         !.calls = Append(@, EngineCall("start", options,
                                     <<[minConfidence |-> c, minPoseConfidence |-> p]>>,
                                     "queued", ""))]

\* PoseEngineModule.start: the block on the engine queue, up to the hop to
\* the main queue for the camera permission.
NativeStart(i) ==
  /\ engine.calls[i].op = "start" /\ NextOnQueue(i)
  /\ IF engine.state \in {"running", "starting"}
     THEN engine' = [engine EXCEPT !.calls[i].stage = "done", !.calls[i].outcome = "resolved"]
     ELSE \E mySession \in {engine.sessionId + 1}, options \in {engine.calls[i].passed[1]} :
          \E minConfidence \in {IF options.minConfidence = <<>> THEN 50
                                ELSE options.minConfidence[1]} :
          \E minPoseConfidence \in {IF options.minPoseConfidence = <<>> THEN minConfidence
                                    ELSE options.minPoseConfidence[1]} :
            IF in01(minConfidence) /\ in01(minPoseConfidence)
            THEN engine' = [engine EXCEPT !.state = "starting", !.sessionId = mySession,
                                          !.calls[i].stage = "permission",
                                          !.calls[i].session = mySession]
            ELSE engine' = [engine EXCEPT !.state = "error", !.sessionId = mySession,
                                          !.calls[i].stage = "done",
                                          !.calls[i].session = mySession,
                                          !.calls[i].outcome = OptionsInvalid]

\* ensureCameraPermission's callback, back on the engine queue; a start whose
\* session is no longer the current one returns without settling its promise.
PermissionAnswer(i, granted) ==
  /\ engine.calls[i].stage = "permission"
  /\ engine' =
       IF engine.sessionId # engine.calls[i].session
       THEN [engine EXCEPT !.calls[i].stage = "dropped"]
       ELSE IF ~granted
       THEN [engine EXCEPT !.state = "error", !.calls[i].stage = "done",
                           !.calls[i].outcome = CameraPermissionDenied]
       ELSE [engine EXCEPT !.calls[i].stage = "camera"]

\* The Task of start: camera.start(...), then runner.start(config, onOutput)
\* which wires the output callback of this session; started is "ok", or
\* names what threw.
CameraAndRunner(i, started) ==
  /\ engine.calls[i].stage = "camera"
  /\ engine' =
       IF started = "ok"
       THEN [engine EXCEPT !.runnerSession = engine.calls[i].session,
                           !.calls[i].stage = "mark"]
       ELSE [engine EXCEPT !.calls[i].stage = "failed"]

\* The last block of start on the engine queue: mark running and resolve, or
\* set the error state and reject; nothing for a stale session.
StartFinish(i) ==
  /\ engine.calls[i].stage \in {"mark", "failed"}
  /\ engine' =
       IF engine.sessionId # engine.calls[i].session
       THEN [engine EXCEPT !.calls[i].stage = "dropped"]
       ELSE IF engine.calls[i].stage = "mark"
       THEN [engine EXCEPT !.state = "running", !.calls[i].stage = "done",
                           !.calls[i].outcome = "resolved"]
       ELSE [engine EXCEPT !.state = "error", !.calls[i].stage = "done",
                           !.calls[i].outcome = StartFailed]

\* PoseEngine.stop() up to `await NativePoseEngine.stop()`
JsStop ==
  /\ Len(engine.calls) < MaxEngineCalls
  /\ engine' =
       IF ~engine.started
       THEN [engine EXCEPT !.calls = Append(@, EngineCall("stop", <<>>, <<>>, "done", "resolved"))]
       ELSE [engine EXCEPT !.started = FALSE,
                           !.calls = Append(@, EngineCall("stop", <<>>, <<"stop">>, "queued", ""))]

\* PoseEngineModule.stop: the block on the engine queue
NativeStop(i) ==
  /\ engine.calls[i].op = "stop" /\ NextOnQueue(i)
  /\ engine' =
       IF engine.state \in {"idle", "stopping"}
       THEN [engine EXCEPT !.calls[i].stage = "done", !.calls[i].outcome = "resolved"]
       ELSE [engine EXCEPT !.state = "stopping", !.sessionId = @ + 1,
                           !.calls[i].stage = "stopping",
                           !.calls[i].session = engine.sessionId + 1]

\* The Task of stop: camera.stop(), runner.stop()
StopTask(i) ==
  /\ engine.calls[i].stage = "stopping"
  /\ engine' = [engine EXCEPT !.runnerSession = 0, !.calls[i].stage = "stopped"]

\* The last block of stop on the engine queue
StopFinish(i) ==
  /\ engine.calls[i].stage = "stopped"
  /\ engine' =
       IF engine.sessionId # engine.calls[i].session
       THEN [engine EXCEPT !.calls[i].stage = "dropped"]
       ELSE [engine EXCEPT !.state = "idle", !.calls[i].stage = "done",
                           !.calls[i].outcome = "resolved"]

\* PoseEngine.addListener(cb) and the function it returns: the emitter's
\* first listener makes the module observe, its removal ends that.
SetListener(on) ==
  /\ engine.hasListeners # on
  /\ engine' = [engine EXCEPT !.hasListeners = on]

\* onOutput of the runner: a frame event is sent for the current session
\* while the module is running and observed.  emitted holds the sessions a
\* frame was sent for.
EmitFrame ==
  /\ engine.runnerSession # 0
  /\ engine.sessionId = engine.runnerSession
  /\ engine.state = "running"
  /\ engine.hasListeners
  /\ engine.runnerSession \notin engine.emitted
  /\ engine' = [engine EXCEPT !.emitted = @ \cup {engine.runnerSession}]

\* The thresholds a caller gives: none, the default, above 1, below 0, NaN.
ThresholdOptions ==
  {[minConfidence |-> <<>>, minPoseConfidence |-> <<>>],
   [minConfidence |-> <<JointThreshold>>, minPoseConfidence |-> <<JointThreshold>>],
   [minConfidence |-> <<150>>, minPoseConfidence |-> <<>>],
   [minConfidence |-> <<50>>, minPoseConfidence |-> <<-20>>],
   [minConfidence |-> <<NaN>>, minPoseConfidence |-> <<>>]}

\* A step of the stream source leaves the other components alone.
OnEngine(step) == step /\ UNCHANGED <<recorder, smooth, store, bvh, poseRunner>>

NextEngine ==
  \/ \E options \in ThresholdOptions : OnEngine(JsStart(options))
  \/ OnEngine(JsStop)
  \/ \E on \in BOOLEAN : OnEngine(SetListener(on))
  \/ \E i \in 1..Len(engine.calls) : OnEngine(NativeStart(i))
  \/ \E i \in 1..Len(engine.calls), granted \in BOOLEAN : OnEngine(PermissionAnswer(i, granted))
  \/ \E i \in 1..Len(engine.calls), started \in {"ok", "camera", "runner"} :
       OnEngine(CameraAndRunner(i, started))
  \/ \E i \in 1..Len(engine.calls) : OnEngine(StartFinish(i))
  \/ \E i \in 1..Len(engine.calls) : OnEngine(NativeStop(i))
  \/ \E i \in 1..Len(engine.calls) : OnEngine(StopTask(i))
  \/ \E i \in 1..Len(engine.calls) : OnEngine(StopFinish(i))
  \/ OnEngine(EmitFrame)

SpecEngine == Init /\ [][NextEngine]_vars




\* ------------------------------------------------------ recorder scheduling
\* What the JavaScript runtime and a persistence port that answers every call
\* guarantee: React renders again after a setState, a setTimeout(0) fires, and
\* a pending appendFrames or finalizeTake call settles.  Nothing obliges the
\* caller to call the hook, nor createTake to answer.
RenderHappens == Render /\ UNCHANGED <<smooth, store, bvh, engine, poseRunner>>
TimerFires ==
  \E i \in 1..Len(drains) : AppendCall(i) /\ UNCHANGED <<smooth, store, bvh, engine, poseRunner>>
AppendSettles ==
  \E i \in 1..Len(drains) :
    (AppendReturns(i) \/ AppendFails(i)) /\ UNCHANGED <<smooth, store, bvh, engine, poseRunner>>
FinalizeSettles ==
  \E i \in 1..Len(finalizing) :
    (FinalizeReturns(i) \/ FinalizeFails(i)) /\ UNCHANGED <<smooth, store, bvh, engine, poseRunner>>

RecorderFairness ==
  /\ WF_vars(RenderHappens)
  /\ WF_vars(TimerFires)
  /\ WF_vars(AppendSettles)
  /\ WF_vars(FinalizeSettles)

\* The recorder used with fresh callbacks, under that scheduling.
SpecLive == Init /\ [][NextFresh]_vars /\ RecorderFairness











\* ------------------------------------ TakeRepo.fs.ts, from await to await
\* The calls of takeRepoFs on the one take, each an async function that gives
\* way to the others at its awaits.  fsCalls holds a record per call: where it
\* stands (pc), its arguments, the take it read with getTake, the text of
\* frames.jsonl it read in appendTextFile, and the take it returned.
MaxFsCalls == 3         \* calls of appendFrames and finalizeTake on the take

\* The frames of the k-th call: one frame, or two for the second call.
FsFrames(k) ==
  [j \in 1..(IF k = 2 THEN 2 ELSE 1) |-> [ts |-> k * TsStep + j, landmarks |-> <<k>>]]

FsAppends == SelectSeq(fsCalls, LAMBDA c : c.op = "appendFrames")

FsInit ==
  /\ RecorderInit /\ SmootherUnused /\ BvhUnused /\ EngineUnused
  /\ metaFile = File(NewTake) /\ framesFile = File(<<>>) /\ mmkv = NoStorage
  /\ exportFiles = [json |-> NoFile, bvh |-> NoFile]
  /\ result = NoCall
  /\ sent = <<>>
  /\ fsCalls = <<>>

\* appendFrames(takeId, chunkNumber, frames) is called: it runs to its first
\* await, inside getTake.  The caller numbers its chunks 0, 1, ...
FsCallAppendFrames ==
  /\ Len(fsCalls) < MaxFsCalls
  /\ fsCalls' = Append(fsCalls,
       [op |-> "appendFrames", pc |-> "getTake", chunkNumber |-> Len(FsAppends),
        frames |-> FsFrames(Len(fsCalls) + 1), firstTs |-> 0, lastTs |-> 0,
        take |-> <<>>, prev |-> <<>>, returned |-> <<>>])
  /\ UNCHANGED <<metaFile, framesFile>>

\* finalizeTake(takeId, firstTs, lastTs) is called
FsCallFinalizeTake(firstTs, lastTs) ==
  /\ Len(fsCalls) < MaxFsCalls
  /\ fsCalls' = Append(fsCalls,
       [op |-> "finalizeTake", pc |-> "getTake", chunkNumber |-> 0,
        frames |-> <<>>, firstTs |-> firstTs, lastTs |-> lastTs,
        take |-> <<>>, prev |-> <<>>, returned |-> <<>>])
  /\ UNCHANGED <<metaFile, framesFile>>

\* const take = await this.getTake(takeId): readJson of meta.json resolves.
\* appendFrames goes on into appendTextFile, up to its read of frames.jsonl.
FsGetTakeResolves(i) ==
  /\ fsCalls[i].pc = "getTake"
  /\ fsCalls' = [fsCalls EXCEPT ![i] =
       IF metaFile = NoFile THEN [@ EXCEPT !.pc = "threw"]
       ELSE [@ EXCEPT !.take = <<metaFile[1]>>,
                      !.pc = IF fsCalls[i].op = "finalizeTake" THEN "writeJson"
                             ELSE "readAsString"]]
  /\ UNCHANGED <<metaFile, framesFile>>

\* appendTextFile: const prev = await FS.readAsStringAsync(path)
FsReadResolves(i) ==
  /\ fsCalls[i].pc = "readAsString"
  /\ fsCalls' = [fsCalls EXCEPT ![i] =
       [@ EXCEPT !.prev = IF framesFile = NoFile THEN <<>> ELSE framesFile[1],
                 !.pc = "writeAsString"]]
  /\ UNCHANGED <<metaFile, framesFile>>

\* appendTextFile: await FS.writeAsStringAsync(path, prev + text)
FsWriteResolves(i) ==
  /\ fsCalls[i].pc = "writeAsString"
  /\ framesFile' = File(fsCalls[i].prev
                        \o [j \in 1..Len(fsCalls[i].frames) |-> FrameLine(fsCalls[i].frames[j])])
  /\ fsCalls' = [fsCalls EXCEPT ![i] = [@ EXCEPT !.pc = "writeJson"]]
  /\ UNCHANGED metaFile

\* await writeJson(metaPath(takeId), next), with next computed from the take
\* that getTake gave, and the return of the call.
FsWriteJsonResolves(i) ==
  /\ fsCalls[i].pc = "writeJson"
  /\ \E c \in {fsCalls[i]} :
     \E next \in {IF c.op = "finalizeTake"
                  THEN Finalized(c.take[1], c.firstTs, c.lastTs)
                  ELSE [c.take[1] EXCEPT !.frameCount = @ + Len(c.frames),
                                         !.chunkCount = Max(@, c.chunkNumber + 1)]} :
       /\ metaFile' = File(next)
       /\ fsCalls' = [fsCalls EXCEPT ![i] = [@ EXCEPT !.pc = "returned",
                                                      !.returned = <<next>>]]
  /\ UNCHANGED framesFile

OnFs(step) ==
  /\ step
  /\ UNCHANGED <<exportFiles, result, sent, mmkv, recorder, smooth, bvh, engine, poseRunner>>

NextFs ==
  \/ OnFs(FsCallAppendFrames)
  \/ \E lastTs \in {TsStep, 3 * TsStep} : OnFs(FsCallFinalizeTake(TsStep, lastTs))
  \/ \E i \in 1..Len(fsCalls) : OnFs(FsGetTakeResolves(i))
  \/ \E i \in 1..Len(fsCalls) : OnFs(FsReadResolves(i))
  \/ \E i \in 1..Len(fsCalls) : OnFs(FsWriteResolves(i))
  \/ \E i \in 1..Len(fsCalls) : OnFs(FsWriteJsonResolves(i))

SpecFs == FsInit /\ [][NextFs]_vars





\* --------------------------------------------------- engine scheduling
\* What the dispatch queues and the Swift runtime guarantee: a block put on
\* the serial engine queue runs, the permission callback is called, and the
\* Task of a start or stop runs to its end.  Nothing obliges the caller to
\* make a call.
EngineQueueRuns ==
  \E i \in 1..Len(engine.calls) :
    OnEngine(NativeStart(i) \/ NativeStop(i) \/ StartFinish(i) \/ StopFinish(i))
PermissionAnswered ==
  \E i \in 1..Len(engine.calls), granted \in BOOLEAN : OnEngine(PermissionAnswer(i, granted))
TaskEnds ==
  \E i \in 1..Len(engine.calls) :
    OnEngine(StopTask(i) \/ \E started \in {"ok", "camera", "runner"} : CameraAndRunner(i, started))

EngineFairness ==
  /\ WF_vars(EngineQueueRuns)
  /\ WF_vars(PermissionAnswered)
  /\ WF_vars(TaskEnds)

SpecEngineLive == Init /\ [][NextEngine]_vars /\ EngineFairness



\* ------------------------------------------ PoseLandmarkerRunner.swift
\* The blocks of the runner's serial queue.  poseRunner holds the runner's
\* fields (onOutput: the session whose callback is set, 0 for nil; the
\* landmarker is there exactly while isRunning), the detections asked of
\* MediaPipe whose result has not come (requests, each with the session that
\* asked), how many were asked, and the results handed to an output callback
\* (outputs: the session of the callback and the session that asked).
\* MediaPipe calls the delegate when it will: the result of a detection asked
\* of a landmarker that the runner has since let go may still come, or never.
MaxRunnerSessions == 4    \* start() and stop() calls on the runner
MaxRequests == 3          \* detections asked of MediaPipe

\* start(config, onOutput, onError): ok is whether the model is in the
\* bundle and PoseLandmarker(options:) does not throw.
RunnerStart(ok) ==
  /\ poseRunner.sessionId < MaxRunnerSessions
  /\ \E mySession \in {poseRunner.sessionId + 1} :
       poseRunner' = [poseRunner EXCEPT !.sessionId = mySession,
                                        !.onOutput = mySession,
                                        !.isRunning = ok,
                                        !.inFlight = FALSE,
                                        !.droppedFrames = 0]

\* stop()
RunnerStop ==
  /\ poseRunner.sessionId < MaxRunnerSessions
  /\ poseRunner' = [poseRunner EXCEPT !.sessionId = @ + 1,
                                      !.onOutput = 0,
                                      !.isRunning = FALSE,
                                      !.inFlight = FALSE,
                                      !.droppedFrames = 0]

\* process(sampleBuffer, ...) on a running runner: the frame is dropped while
\* a detection is in flight; otherwise it gives no MPImage ("image"), or
\* detectAsync is called and returns ("detect") or throws ("throws").  A
\* frame without a pixel buffer changes nothing.
RunnerProcess(frame) ==
  /\ poseRunner.isRunning
  /\ poseRunner.asked < MaxRequests
  /\ IF poseRunner.inFlight
     THEN /\ frame = "detect"
          /\ poseRunner.droppedFrames < MaxRequests
          /\ poseRunner' = [poseRunner EXCEPT !.droppedFrames = @ + 1]
     ELSE /\ poseRunner' =
               IF frame = "detect"
               THEN [poseRunner EXCEPT
                       !.inFlight = TRUE,
                       !.asked = @ + 1,
                       !.requests = @ \cup {[n |-> poseRunner.asked + 1,
                                             session |-> poseRunner.sessionId]}]
               ELSE [poseRunner EXCEPT !.inFlight = FALSE]

\* emit(timestampMs, result)
emit(r, request) ==
  [r EXCEPT !.inFlight = FALSE,
            !.outputs = IF r.onOutput = 0 THEN @
                        ELSE Append(@, [to |-> r.onOutput, from |-> request.session])]

\* emitError(msg)
emitError(r) == [r EXCEPT !.inFlight = FALSE]

\* poseLandmarker(_:didFinishDetection:timestampInMilliseconds:error:), the
\* block it puts on the queue
DidFinishDetection(request, error) ==
  /\ request \in poseRunner.requests
  /\ \E r \in {[poseRunner EXCEPT !.requests = @ \ {request}]} :
       poseRunner' = IF error THEN emitError(r) ELSE emit(r, request)

OnRunner(step) == step /\ UNCHANGED <<recorder, smooth, store, bvh, engine>>

NextRunner ==
  \/ \E ok \in BOOLEAN : OnRunner(RunnerStart(ok))
  \/ OnRunner(RunnerStop)
  \/ \E frame \in {"image", "detect", "throws"} : OnRunner(RunnerProcess(frame))
  \/ \E request \in poseRunner.requests, error \in BOOLEAN :
       OnRunner(DidFinishDetection(request, error))

SpecRunner == Init /\ [][NextRunner]_vars


\* ==================================================================== claims
\* Frames stored for take t, in the order the port stored them.
PersistedIn(stored, t) == Concat(OfTake(stored, t))
Persisted(t) == PersistedIn(chunks, t)

\* C1: during a recording, the frames persisted for the take plus the frames in
\* the buffer number exactly the frames pushFrame has accepted, at every
\* instant, also between a drain's splice and the end of its appendFrames call.
C1_PersistedPlusBuffered ==
  (takeRef # NoTake /\ failures = 0) =>
    SumLen(OfTake(chunks, takeRef)) + Len(bufferRef) = Len(accepted[takeRef])

\* C2: for every take the chunk numbers handed to appendFrames are 0, 1, 2, ...
\* in call order (stated for runs in which no persistence call has failed).
C2_ChunkNumbersSequential ==
  failures = 0 =>
    \A t \in 1..Len(takes) :
      LET calls == OfTake(appendCalls, t) IN
      \A k \in 1..Len(calls) : calls[k].n = k - 1

\* C3: at most one drain is in progress, it runs under the busy flag, and so at
\* most one appendFrames call of the recorder is outstanding.
C3_AtMostOneDrain ==
  /\ Len(drains) <= 1
  /\ Len(drains) = 1 => flushingRef
  /\ Len(SelectSeq(drains, LAMBDA d : d.pc = "append")) <= 1

\* C3 witness: a flush was asked for while a drain's appendFrames call is
\* outstanding; the request is noted and no second drain exists.
C3_Witness ==
  /\ flushAgainRef
  /\ Len(drains) = 1
  /\ drains[1].pc = "append"
  /\ Len(bufferRef) > 0

\* C4: frames that were in the buffer when flush() was asked for during a
\* running flush have all been persisted once that flush has finished
\* (stated for runs in which no persistence call has failed).
C4_RequestedFramesPersisted ==
  (Len(drains) = 0 /\ failures = 0) =>
    requested \subseteq UNION {Range(Persisted(t)) : t \in 1..Len(takes)}

\* C5: whenever stopRecording invokes finalizeTake, the buffer is empty and no
\* flush is in flight.
C5_FinalizeAfterDrain ==
  [][Len(finalizeCalls') > Len(finalizeCalls) =>
       (Len(bufferRef') = 0 /\ Len(drains') = 0 /\ ~flushingRef')]_vars

\* C6: when stopRecording returns a finalized take, the frames persisted for
\* it are exactly the frames accepted during the recording, each once, and the
\* returned frameCount is their number (stated for runs without a failed
\* persistence call).
C6_ReturnedTakeComplete ==
  [][(Len(returned') > Len(returned) /\ failures' = 0) =>
       LET r == returned'[Len(returned')] IN
       /\ r.frameCount = Len(accepted'[r.take])
       /\ Len(PersistedIn(chunks', r.take)) = Len(accepted'[r.take])
       /\ Range(PersistedIn(chunks', r.take)) = Range(accepted'[r.take])]_vars

\* C7: the step in which stopRecording returns a finalized take leaves the
\* buffer empty, the active take cleared and the status idle.
C7_IdleAfterStop ==
  [][Len(returned') > Len(returned) =>
       /\ Len(bufferRef') = 0
       /\ takeRef' = NoTake
       /\ state'.status = "idle"
       /\ state'.buffered = 0]_vars

\* C7 witness: a stopRecording that had frames to drain has returned, the
\* recorder is idle with an empty buffer.
C7_Witness ==
  /\ \E i \in 1..Len(returned) : returned[i].frameCount > 0
  /\ state.status = "idle"
  /\ takeRef = NoTake
  /\ Len(bufferRef) = 0
  /\ Len(finalizing) = 0

\* C8: the status only moves idle -> recording -> stopping -> idle.
C8_StatusTransitions ==
  [][state'.status # state.status =>
       <<state.status, state'.status>> \in
         {<<"idle", "recording">>, <<"recording", "stopping">>,
          <<"stopping", "idle">>}]_vars

\* C9: startRecording while the status is not idle, and stopRecording or
\* pushFrame while the status is not recording, change nothing of the
\* recorder and make no persistence call.
C9_GuardedCallsAreNoOps ==
  [][(\/ (\E c \in 1..MaxChunkFrames : StartRecording(c)) /\ state.status # "idle"
      \/ StopRecording /\ state.status # "recording"
      \/ PushFrame /\ state.status # "recording")
     => UNCHANGED <<state, refs, optsRef, creating, finalizing, drains, port>>]_vars

\* C10: stopRecording never returns a finalized take for which an appendFrames
\* call failed without the error reaching an awaiting caller.
C10_NoFinalizedTakeAfterLostError ==
  \A i \in 1..Len(returned) : \A j \in 1..Len(rejected) :
    ~(rejected[j].call = "push" /\ rejected[j].take = returned[i].take)

\* C11: when appendFrames rejects during a flush or a stop, the frames of the
\* failed chunk are in the recorder's buffer afterwards, so that a retried
\* flush persists them.
C11_FailedChunkStaysBuffered ==
  [][\A i \in 1..Len(drains) :
       (drains[i].pc = "append" /\ failures' = failures + 1
          /\ drains' = RemoveAt(drains, i))
       => Range(drains[i].frames) \subseteq Range(bufferRef')]_vars

\* ------------------------------------------------------------- BVH text
Written == bvhText # NoCall /\ bvhText[1].error = ""
Text == bvhText[1].text
LinesOf(text, kinds) == SelectSeq(text, LAMBDA l : l.kind \in kinds)
\* The joints in the order the hierarchy declares them, and their channels.
DeclaredJoints(text) ==
  LET ls == LinesOf(text, {"ROOT", "JOINT"}) IN [i \in 1..Len(ls) |-> ls[i].arg]
DeclaredChannels(text) ==
  LET ls == LinesOf(text, {"CHANNELS"}) IN [i \in 1..Len(ls) |-> ls[i].arg]
MotionRows(text) ==
  LET ls == LinesOf(text, {"row"}) IN [i \in 1..Len(ls) |-> ls[i].arg]
RECURSIVE Sum(_)
Sum(s) == IF s = <<>> THEN 0 ELSE Head(s) + Sum(Tail(s))
Leaves == {j \in JointName : \A i \in 1..Len(RIG) : RIG[i].parent # j}
ZeroOffset(l) == l.kind = "OFFSET" /\ l.arg = <<Num(0), Num(0), Num(0)>>

\* C16: in a BVH text of either writer the joints the hierarchy declares
\* channels for, in depth-first order, are the joints every motion line gives
\* values for, in the same order; a motion line has as many values per joint
\* as channels declared: 6 for the root (Xposition Yposition Zposition
\* Zrotation Xrotation Yrotation) and 3 (Zrotation Xrotation Yrotation) for
\* each of the 15 others; every joint without children is closed by an End
\* Site with zero offset.
C16_ChannelsMatchMotion ==
  Written =>
    LET joints == DeclaredJoints(Text)
        chans == DeclaredChannels(Text)
        rows == MotionRows(Text)
    IN /\ Len(joints) = 16 /\ Len(chans) = 16
       /\ \A i \in 1..Len(Text) :
            Text[i].kind \in {"ROOT", "JOINT"} => Text[i + 3].kind = "CHANNELS"
       /\ joints[1] = "Hips" /\ chans[1] = RootChannels
       /\ \A i \in 2..16 : chans[i] = JointChannels
       /\ Len(rows) = Len(bvhFrames)
       /\ \A r \in 1..Len(rows) :
            /\ [i \in 1..Len(rows[r]) |-> rows[r][i].joint] = joints
            /\ \A i \in 1..16 : Len(rows[r][i].values) = Len(chans[i])
            /\ Sum([i \in 1..16 |-> Len(rows[r][i].values)]) = 6 + 3 * 15
       /\ \A i \in 1..Len(Text) :
            /\ Text[i].kind = "JOINT" /\ Text[i].arg \in Leaves =>
                 /\ Text[i + 4].kind = "End Site"
                 /\ ZeroOffset(Text[i + 6])
                 /\ Text[i + 7].kind = "}"
                 /\ Text[i + 8] = Line("}", Text[i].arg, Text[i].indent)
            /\ Text[i].kind = "End Site" => Text[i].arg \in Leaves
       /\ Len(LinesOf(Text, {"End Site"})) = Cardinality(Leaves)

C16_TwoMotionLines ==
  /\ Written /\ bvhText[1].writer = "buildBVH"
  /\ Len(MotionRows(Text)) = 2
  /\ bvhFrames[2].landmarks = ArmUp

\* C17: BVHWriter.fromMediapipePoseFrames called with no frames throws an
\* error and produces no text.
C17_NoFramesThrows ==
  (bvhText # NoCall /\ bvhText[1].writer = "BVHWriter" /\ bvhFrames = <<>>)
    => bvhText[1].error # "" /\ bvhText[1].text = <<>>

C17_CalledWithoutFrames ==
  bvhText # NoCall /\ bvhText[1].writer = "BVHWriter" /\ bvhFrames = <<>>

\* Equality of joint poses as the numbers compare (NaN equals nothing).
NumEq(a, b) == Finite(a) /\ Finite(b) /\ a = b
PoseEq(p, q) == \A j \in JointName :
  NumEq(p[j].x, q[j].x) /\ NumEq(p[j].y, q[j].y) /\ NumEq(p[j].z, q[j].z)
FracEq(a, da, b, db) == Finite(a) /\ Finite(b) /\ a * db = b * da
RigPoseEq(p, q) == \A j \in JointName :
  /\ FracEq(p.pos[j].x, p.den, q.pos[j].x, q.den)
  /\ FracEq(p.pos[j].y, p.den, q.pos[j].y, q.den)
  /\ FracEq(p.pos[j].z, p.den, q.pos[j].z, q.den)
EqualsRest(i) ==
  IF bvhText[1].writer = "BVHWriter"
  THEN PoseEq(mp33ToJointPose(bvhFrames[i].landmarks),
              mp33ToJointPose(bvhFrames[1].landmarks))
  ELSE RigPoseEq(buildRigPose(bvhFrames[i]), buildRigPose(bvhFrames[1]))
AllZero(row) == \A i \in 1..Len(row) : \A k \in 1..Len(row[i].values) :
  row[i].values[k] = Num(0)

Called(op) == result # NoCall /\ result[1].op = op

\* C12: finalizeTake(id, firstTs, lastTs) stores durationMs = max(0, lastTs -
\* firstTs) and avgFps = frameCount / (durationMs / 1000) when durationMs > 0,
\* else avgFps = 0, with the persisted frameCount, and leaves frameCount and
\* chunkCount as they were; firstTs = 1000, lastTs = 2000, frameCount = 30
\* gives durationMs = 1000 and avgFps = 30, and lastTs <= firstTs gives
\* avgFps = 0.
C12_FinalizeArithmetic ==
  (Called("finalizeTake") /\ result[1].error = "") =>
    LET r == result[1]
        was == r.before
        now == r.returned
        d == IF r.lastTs > r.firstTs THEN r.lastTs - r.firstTs ELSE 0
    IN /\ metaFile = File(now)
       /\ now.durationMs = d
       /\ d > 0 => now.avgFpsNum * d = was.frameCount * 1000 * now.avgFpsDen
       /\ d = 0 => now.avgFpsNum = 0
       /\ now.avgFpsDen > 0
       /\ now.frameCount = was.frameCount /\ now.chunkCount = was.chunkCount
       /\ (r.firstTs = 1000 /\ r.lastTs = 2000 /\ was.frameCount = 30) =>
            now.durationMs = 1000 /\ now.avgFpsNum = 30 * now.avgFpsDen
       /\ r.lastTs <= r.firstTs => now.avgFpsNum = 0

C12_ThirtyFramesInOneSecond ==
  /\ Called("finalizeTake") /\ result[1].error = ""
  /\ result[1].firstTs = 1000 /\ result[1].lastTs = 2000
  /\ result[1].before.frameCount = 30
  /\ metaFile[1].durationMs = 1000
  /\ metaFile[1].avgFpsNum = 30 * metaFile[1].avgFpsDen

\* C18: exportTake with format "bvh" or "both" on a take without stored
\* frames fails: no BVH file is written and no bvhPath is returned.
C18_EmptyExportFails ==
  (Called("exportTake") /\ result[1].format \in {"bvh", "both"} /\ result[1].frames = 0)
    => /\ result[1].error # ""
       /\ result[1].bvhPath = <<>>
       /\ exportFiles.bvh = NoFile

\* C20: for a take whose frames were appended through the port, the JSON
\* export with frames included, parsed, has for every frame in order the
\* timestamp and, element by element, the landmark array that was appended.
C20_JsonRoundTrip ==
  (exportFiles.json # NoFile /\ Called("exportTake") /\ result[1].format \in {"json", "both"}
     /\ exportFiles.json[1].frames # <<>>)
    => LET back == exportFiles.json[1].frames IN
       /\ Len(back) = Len(sent)
       /\ \A i \in 1..Len(sent) :
            /\ ~back[i].ts.null /\ back[i].ts.n = sent[i].ts
            /\ Len(back[i].lm) = Len(sent[i].landmarks)
            /\ \A k \in 1..Len(sent[i].landmarks) :
                 /\ ~back[i].lm[k].null
                 /\ NumEq(back[i].lm[k].n, sent[i].landmarks[k])

\* ----------------------------------------------------------- pose smoother
\* The landmarks of a buffer, the elements of landmark i, and the smoother
\* before call k.
Landmarks(buf) == 1..(Len(buf) \div LANDMARK_STRIDE)
Lm(buf, i) == SubSeq(buf, (i - 1) * LANDMARK_STRIDE + 1, i * LANDMARK_STRIDE)
Before(k) ==
  IF k = 1 THEN NewSmoother(2, JointThreshold, smoother[1].lm[1].params.beta)
  ELSE filtered[k - 1].sm
BelowGate(c) == c.n < JointThreshold * c.d

\* C13: in PoseSmoother.filter a landmark whose confidence is below the gate
\* has its x, y, z and confidence in the output equal to the input, and its
\* filters (last value, last derivative, last timestamp, frequency) are as
\* before the call; a landmark at or above the gate is filtered: its
\* filters hold the call's value and timestamp afterwards.
C13_ConfidenceGate ==
  \A k \in 1..Len(filtered) :
    LET call == filtered[k] IN
    \A i \in Landmarks(call.given) :
      LET v == Lm(call.given, i) IN
      IF BelowGate(v[4])
      THEN /\ Lm(call.out, i) = v
           /\ call.sm.lm[i] = Before(k).lm[i]
      ELSE /\ call.sm.lm[i].fx.lastTs = <<call.ts>> /\ call.sm.lm[i].fx.x.y = <<v[1]>>
           /\ call.sm.lm[i].fy.lastTs = <<call.ts>> /\ call.sm.lm[i].fy.x.y = <<v[2]>>
           /\ call.sm.lm[i].fz.lastTs = <<call.ts>> /\ call.sm.lm[i].fz.x.y = <<v[3]>>
           /\ Lm(call.out, i)[1] = call.sm.lm[i].fx.x.s[1]
           /\ Lm(call.out, i)[2] = call.sm.lm[i].fy.x.s[1]
           /\ Lm(call.out, i)[3] = call.sm.lm[i].fz.x.s[1]

\* A landmark below the gate in a call after one in which it was filtered
\* to a value other than its input.
C13_GatedAfterFiltered ==
  /\ Len(filtered) = 3
  /\ ~BelowGate(filtered[2].given[4]) /\ Lm(filtered[2].out, 1) # Lm(filtered[2].given, 1)
  /\ BelowGate(filtered[3].given[4]) /\ ~BelowGate(filtered[3].given[8])
  /\ filtered[3].sm.lm[1] = filtered[2].sm.lm[1]
  /\ filtered[3].sm.lm[2] # filtered[2].sm.lm[2]

\* C14: PoseSmoother.filter returns another buffer of the length of its
\* input, leaves every element of the input as it was, and copies every
\* landmark's confidence to the output.
C14_InputNotMutated ==
  \A k \in 1..Len(filtered) :
    LET call == filtered[k] IN
    /\ call.fresh
    /\ Len(call.out) = Len(call.given)
    /\ call.raw = call.given
    /\ \A i \in Landmarks(call.given) : Lm(call.out, i)[4] = Lm(call.given, i)[4]

\* A call whose output differs from its input.
C14_OutputDiffers ==
  /\ filtered # <<>>
  /\ filtered[Len(filtered)].out # filtered[Len(filtered)].given
  /\ filtered[Len(filtered)].raw = filtered[Len(filtered)].given

\* C15: a landmark given the same x, y, z and a confidence at or above the
\* gate in every call, the timestamps increasing, has that value as its
\* output in the first call and in every later one.
C15_ConstantInputIsFixed ==
  \A i \in 1..2 :
    (/\ \A k \in 1..Len(filtered) :
          /\ Lm(filtered[k].given, i) = Lm(filtered[1].given, i)
          /\ ~BelowGate(Lm(filtered[k].given, i)[4])
          /\ k > 1 => filtered[k].ts > filtered[k - 1].ts)
    => \A k \in 1..Len(filtered) : Lm(filtered[k].out, i) = Lm(filtered[k].given, i)

\* Three calls with the same value for landmark 1 at different frame rates,
\* while landmark 2 moves.
C15_ThreeConstantFrames ==
  /\ Len(filtered) = 3
  /\ \A k \in 1..3 : Lm(filtered[k].given, 1) = <<Frac(10, 1), Frac(20, 1), Frac(30, 1), Frac(90, 1)>>
  /\ filtered[2].ts = filtered[1].ts + 50 /\ filtered[3].ts = filtered[2].ts + 100
  /\ Lm(filtered[3].out, 1) = Lm(filtered[3].given, 1)
  /\ Lm(filtered[3].out, 2) # Lm(filtered[3].given, 2)

\* C21: exportTake returns the export directory and a path for exactly the
\* files it wrote: format "json" gives jsonPath and no bvhPath, "bvh" gives
\* bvhPath and no jsonPath, "both" and no format give both; with
\* includeFramesInJson = false the JSON document holds the take's metadata
\* and an empty frames array.
C21_ExportPaths ==
  Called("exportTake") =>
    LET r == result[1]
        asked == r.opts.format
        json == asked \in {<<>>, <<"json">>, <<"both">>}
        bvhFile == asked \in {<<>>, <<"bvh">>, <<"both">>}
    IN /\ r.exportDir = ExportDir
       /\ r.jsonPath = (IF json THEN <<ExportPath("json")>> ELSE <<>>)
       /\ r.bvhPath = (IF bvhFile THEN <<ExportPath("bvh")>> ELSE <<>>)
       /\ (exportFiles.json # NoFile) = json
       /\ (exportFiles.bvh # NoFile) = bvhFile
       /\ \A i \in 1..Len(r.jsonPath) : r.jsonPath[i].dir = r.exportDir
       /\ \A i \in 1..Len(r.bvhPath) : r.bvhPath[i].dir = r.exportDir
       /\ json =>
            /\ exportFiles.json[1].take = metaFile[1]
            /\ r.opts.includeFramesInJson = <<FALSE>> => exportFiles.json[1].frames = <<>>
            /\ r.opts.includeFramesInJson = <<>> => Len(exportFiles.json[1].frames) = r.frames

\* A take with frames exported without a format and without its frames.
C21_DefaultFormatWithoutFrames ==
  /\ Called("exportTake")
  /\ result[1].opts.format = <<>> /\ result[1].opts.includeFramesInJson = <<FALSE>>
  /\ result[1].frames = 2
  /\ result[1].jsonPath # <<>> /\ result[1].bvhPath # <<>>
  /\ exportFiles.json[1].frames = <<>> /\ exportFiles.json[1].take.frameCount = 2

\* C22: after deleteTake(id) has returned, getTake(id) is absent, listTakes
\* does not contain the take and no chunk or frame of it can be read,
\* whatever chunks were appended before; deleteTake of an id that is not
\* stored changes nothing.  Stated for takeRepo (MMKV) and for takeRepoFs.
C22_DeleteRemovesTake ==
  /\ Called("takeRepo.deleteTake") =>
       LET st == mmkv[1]
           was == result[1].before[1]
           id == result[1].id
       IN /\ getTake(st, id) = <<>>
          /\ \A i \in 1..Len(listTakes(st)) : listTakes(st)[i].id # id
          /\ \A i \in 1..Len(st.index) : st.index[i] # id
          /\ \A n \in 0..(MaxChunkNo + 1) : getChunk(st, id, n) = <<>>
          /\ \A key \in DOMAIN st.chunk : key[1] # id
          /\ getTake(was, id) = <<>> => st = was
  /\ Called("deleteTake") =>
       /\ FsGetTake = <<>>
       /\ FsListTakes = <<>>
       /\ framesFile = NoFile
       /\ result[1].before.metaFile = NoFile =>
            metaFile = result[1].before.metaFile /\ framesFile = result[1].before.framesFile

\* The newer of two takes, with chunks 0 and 2 stored, has been deleted; the
\* other take is still listed.
C22_DeletedTakeWithChunks ==
  /\ Called("takeRepo.deleteTake")
  /\ result[1].id = 2
  /\ {<<2, 0>>, <<2, 2>>} \subseteq DOMAIN result[1].before[1].chunk
  /\ <<2, 1>> \notin DOMAIN result[1].before[1].chunk
  /\ getTake(mmkv[1], 2) = <<>>
  /\ Len(listTakes(mmkv[1])) = 1

\* ---------------------------------------------------------- stream source
\* A threshold that is a number outside [0, 1] (NaN included).
OutOfRange(options) ==
  \E v \in {options.minConfidence, options.minPoseConfidence} :
    v # <<>> /\ ~in01(v[1])

\* C23: a start call on a stream source that is not started, given
\* minConfidence or minPoseConfidence outside [0, 1], is rejected with OptionsInvalid at that call: it gets no further than the
\* validation, its promise settles with E_OPTIONS and with nothing else, the
\* engine is never running in the session it opened and no frame is emitted
\* for it.
C23_InvalidThresholdRejected ==
  \A i \in 1..Len(engine.calls) :
    LET c == engine.calls[i] IN
    (c.op = "start" /\ c.passed # <<>> /\ OutOfRange(c.given)) =>
      /\ c.outcome \in {"", OptionsInvalid}
      /\ c.stage \in {"queued", "done"}
      /\ c.session = 0 \/ c.session \notin engine.emitted
      /\ ~(engine.state = "running" /\ engine.sessionId = c.session)

\* ----------------------------------------------------------------- recorder
\* C24: when pushFrame has returned, a flush is in flight or the buffer holds
\* fewer than chunkFrames frames: the push that fills the buffer starts the
\* flush (or leaves the request with the flush that is running) and does not
\* wait for it.
C24_PushTriggersFlush ==
  [][nextTs' = nextTs + 1 =>
       \/ flushingRef' /\ Len(drains') = 1
       \/ Len(bufferRef') < optsRef']_vars

\* A push has started a flush, and a later push has filled the buffer again
\* while that flush is still waiting for appendFrames.
C24_FullBufferDuringFlush ==
  /\ Len(drains) = 1 /\ drains[1].caller = "push" /\ drains[1].pc = "append"
  /\ flushingRef /\ flushAgainRef
  /\ Len(bufferRef) >= optsRef

IsPrefix(s, t) == Len(s) <= Len(t) /\ SubSeq(t, 1, Len(s)) = s
\* s is a run of consecutive elements of t
IsRun(s, t) ==
  \E a \in 0..Len(t) : IsPrefix(s, SubSeq(t, a + 1, Len(t)))
\* Chunks in chunk-number order from n on (in stored order among equal numbers).
RECURSIVE ByChunkNo(_, _)
ByChunkNo(cs, n) ==
  IF cs = <<>> THEN <<>>
  ELSE SelectSeq(cs, LAMBDA c : c.n = n)
       \o ByChunkNo(SelectSeq(cs, LAMBDA c : c.n # n), n + 1)

\* C25: for every take (in runs without a failed persistence call) each
\* stored chunk holds a run of consecutive frames of those pushFrame accepted
\* for the take, in push order; the chunks in chunk-number order, and the
\* frames as they are read back, are at every moment a prefix of the accepted
\* frames; and once stopRecording has returned the take and no flush is
\* running they are the accepted frames, all of them, in order.
C25_FrameOrderPreserved ==
  failures = 0 =>
    \A t \in 1..Len(takes) :
      LET stored == OfTake(chunks, t)
          inOrder == Concat(ByChunkNo(stored, 0))
      IN /\ \A k \in 1..Len(stored) : IsRun(stored[k].frames, accepted[t])
         /\ IsPrefix(inOrder, accepted[t])
         /\ IsPrefix(Persisted(t), accepted[t])
         /\ ((\E i \in 1..Len(returned) : returned[i].take = t) /\ Len(drains) = 0)
              => inOrder = accepted[t] /\ Persisted(t) = accepted[t]

PriorityFps(given, frames) ==
  LET n == Len(frames)
      span == IF n = 0 THEN 0 ELSE frames[n].ts - frames[1].ts
  IN IF given # <<>> THEN {given[1]}
     ELSE IF n >= 2 /\ span > 0
     THEN {f \in {Frac(1000 * (n - 1), span)} : f.n * span = (n - 1) * 1000 * f.d}
     ELSE {[n |-> 30, d |-> 1]}

\* t microseconds is 1 / fps seconds rounded to six decimals
IsFrameTimeOf(t, fps) == 2 * Abs(t * fps.n - 1000000 * fps.d) <= fps.n

HipCentre(i) == mp33ToJointPose(bvhFrames[i].landmarks)[getRoot]
HipsMoved(i) == sub(HipCentre(i), HipCentre(1))
FiniteVec(v) == Finite(v.x) /\ Finite(v.y) /\ Finite(v.z)
RootTranslation(row) == SubSeq(row[1].values, 1, 3)

\* C29: in every motion line of a BVH text the root translation is the hip
\* centre of the frame minus the hip centre of the first frame (in the
\* world coordinates of BVHWriter for the text BVHWriter writes), and for
\* either writer it is not zero in a frame whose hips have moved.
C29_RootTranslation ==
  Written =>
    \A i \in 1..Len(MotionRows(Text)) :
      FiniteVec(HipsMoved(i)) =>
        /\ bvhText[1].writer = "BVHWriter" =>
             RootTranslation(MotionRows(Text)[i])
               = <<Num(HipsMoved(i).x), Num(HipsMoved(i).y), Num(HipsMoved(i).z)>>
        /\ HipsMoved(i) # ZeroVec =>
             RootTranslation(MotionRows(Text)[i]) # <<Num(0), Num(0), Num(0)>>

\* A value of a line is a number (not NaN).
IsNumber(v) == Finite(v.a) /\ Finite(v.b)
\* Joint j of frame i is computed from landmark data that is not there, in
\* the frame itself or in the rest pose.
Affected(i, j) ==
  IF bvhText[1].writer = "BVHWriter"
  THEN \/ ~FiniteVec(mp33ToJointPose(bvhFrames[i].landmarks)[j])
       \/ ~FiniteVec(mp33ToJointPose(bvhFrames[1].landmarks)[j])
  ELSE \/ ~FiniteVec(buildRigPose(bvhFrames[i]).pos[j])
       \/ ~FiniteVec(buildRigPose(bvhFrames[1]).pos[j])

\* C30: a BVH writer given at least one frame completes whatever the
\* landmark buffers hold (zeros, a buffer that ends before the landmarks the
\* rig reads): every OFFSET and every motion value of its text is a number,
\* and the values of a joint whose landmarks are missing are zero.
C30_MissingLandmarksGiveZero ==
  (bvhText # NoCall /\ Len(bvhFrames) > 0) =>
    /\ bvhText[1].error = ""
    /\ \A i \in 1..Len(LinesOf(Text, {"OFFSET"})) :
         \A k \in 1..3 : IsNumber(LinesOf(Text, {"OFFSET"})[i].arg[k])
    /\ \A i \in 1..Len(MotionRows(Text)) :
         LET row == MotionRows(Text)[i] IN
         \A k \in 1..Len(row) : \A c \in 1..Len(row[k].values) :
           /\ IsNumber(row[k].values[c])
           /\ Affected(i, row[k].joint) => row[k].values[c] = Num(0)

\* The parent of joint j after k steps up the rig (NoParent above the root).
RECURSIVE Ancestor(_, _)
Ancestor(j, k) ==
  IF k = 0 \/ j = NoParent THEN j ELSE Ancestor(RigNode(j).parent, k - 1)
\* The walk of BVHWriter: a joint, then the walks of its children in order.
RECURSIVE Walk(_)
RECURSIVE WalkAll(_)
Walk(j) == <<j>> \o WalkAll(childrenOf(j))
WalkAll(kids) == IF kids = <<>> THEN <<>> ELSE Walk(Head(kids)) \o WalkAll(Tail(kids))
VisitsEachOnce(walk) ==
  /\ Len(walk) = Len(RIG)
  /\ \A j \in JointName : Cardinality({i \in 1..Len(walk) : walk[i] = j}) = 1

\* C31: the rig has exactly 16 joints of distinct names; Hips is the only
\* joint without a parent and every other parent is a joint of the rig; going
\* up from any joint ends above Hips (no cycle); and the depth-first walks
\* from Hips of both writers (childrenOf, buildChildren / bvhOrder) visit
\* every joint exactly once, as do the joints a written text declares.
C31_RigIsTree ==
  /\ Len(RIG) = 16
  /\ Cardinality(JointName) = 16
  /\ \A i \in 1..Len(RIG) :
       IF RIG[i].name = "Hips" THEN RIG[i].parent = NoParent
       ELSE RIG[i].parent \in JointName \ {RIG[i].name}
  /\ getRoot = "Hips"
  /\ \A j \in JointName : \E k \in 1..Len(RIG) :
       Ancestor(j, k - 1) = "Hips" /\ Ancestor(j, k) = NoParent
  /\ VisitsEachOnce(Walk(getRoot))
  /\ VisitsEachOnce(<<"Hips">> \o bvhOrder)
  /\ \A j \in JointName : buildChildren[j] = childrenOf(j)
  /\ Written => VisitsEachOnce(DeclaredJoints(Text))

\* Both walks have been used: a text of two frames declares the 16 joints.
C31_SixteenJointsDeclared ==
  /\ Written /\ Len(bvhFrames) = 2
  /\ Len(DeclaredJoints(Text)) = 16
  /\ Len(MotionRows(Text)[2]) = 16

SameFrac(p, q) == p.n * q.d = q.n * p.d
\* The smoother before call k of the calls made so far.
SmootherBefore(k) ==
  IF k = 1
  THEN NewSmoother(2, JointThreshold, filtered[1].sm.lm[1].params.beta)
  ELSE filtered[k - 1].sm
\* Landmark i was filtered (not gated) by call k.
WasFiltered(k, i) ==
  ~Gated(filtered[k].given[(i - 1) * LANDMARK_STRIDE + 4], JointThreshold)

Axes == {[f |-> "fx", o |-> 1], [f |-> "fy", o |-> 2], [f |-> "fz", o |-> 3]}

\* C32: after a filter call on a landmark that is not gated, each of its
\* three filters holds the raw value given as its last value; the working
\* frequency is 1000 / (ts - lastTs) when there was an earlier timestamp and
\* the step exceeds 0.1 ms, else the frequency of before; and the derivative
\* the call computed (kept as the last input of the derivative's low pass) is
\* (value - previous raw value) * frequency, 0 on the first call.
C32_OneEuroState ==
  \A k \in 1..Len(filtered) : \A i \in 1..2 : WasFiltered(k, i) =>
    LET b == SmootherBefore(k).lm[i]
        a == filtered[k].sm.lm[i]
        ts == filtered[k].ts
    IN \A ax \in Axes :
         LET value == filtered[k].given[(i - 1) * LANDMARK_STRIDE + ax.o]
             d == a[ax.f].dx.y[1]
         IN /\ a[ax.f].x.y = <<value>>
            /\ IF b[ax.f].lastTs # <<>> /\ (ts - b[ax.f].lastTs[1]) * 10 > 1
               THEN SameFrac(a.params.freq, [n |-> 1000, d |-> ts - b[ax.f].lastTs[1]])
               ELSE a.params.freq = b.params.freq
            /\ IF b[ax.f].x.y = <<>> THEN d.n = 0
               ELSE SameFrac(d, RMul(RAdd(value, RMul(Frac(-1, 1), b[ax.f].x.y[1])),
                                     a.params.freq))

\* C33: every appendFrames call the recorder makes, every drain on its way to
\* one and every stored chunk has at least one frame; a flush() or
\* stopRecording() on an empty buffer starts no drain; and the chunk number
\* changes only when an appendFrames call has stored a chunk, or by the
\* reset to 0 of a start or stop.
C33_NoEmptyChunk ==
  /\ [](/\ \A i \in 1..Len(appendCalls) : Len(appendCalls[i].frames) >= 1
        /\ \A i \in 1..Len(chunks) : Len(chunks[i].frames) >= 1
        /\ \A i \in 1..Len(drains) : Len(drains[i].frames) >= 1)
  /\ [][(bufferRef = <<>> /\ nextTs' = nextTs) =>
          /\ Len(drains') <= Len(drains)
          /\ Len(appendCalls') > Len(appendCalls) => Len(drains) > 0]_vars
  /\ [][chunkNoRef' # chunkNoRef =>
          \/ Len(chunks') = Len(chunks) + 1
          \/ chunkNoRef' = 0]_vars

\* stopRecording was called on an empty buffer with no flush running, after
\* a chunk had been stored: finalizeTake is called without another append.
C33_StopOnEmptyBuffer ==
  /\ state.status = "stopping"
  /\ bufferRef = <<>> /\ drains = <<>>
  /\ Len(finalizing) = 1
  /\ Len(chunks) >= 1 /\ Len(appendCalls) = Len(chunks)
  /\ failures = 0

C35_OneTakePerStart ==
  /\ [][Len(takes') > Len(takes) =>
          /\ state.status = "idle" /\ takeRef = NoTake
          /\ state'.status = "recording" /\ takeRef' = Len(takes')]_vars
  /\ [][(takeRef # NoTake /\ takeRef' # takeRef) => takeRef' = NoTake]_vars

\* C36: for takeRepoFs, once every appendFrames and finalizeTake call on the
\* take has returned, meta.json counts every frame appended, frames.jsonl
\* holds every appended frame, chunkCount is the highest chunk number plus
\* one, and durationMs and avgFps are those a finalizeTake call wrote.
FsFinalizes == SelectSeq(fsCalls, LAMBDA c : c.op = "finalizeTake")
FsTotalFrames == Sum([i \in 1..Len(FsAppends) |-> Len(FsAppends[i].frames)])
C36_NoLostUpdate ==
  (fsCalls # <<>> /\ \A i \in 1..Len(fsCalls) : fsCalls[i].pc = "returned") =>
    /\ metaFile[1].frameCount = FsTotalFrames
    /\ \A i \in 1..Len(FsAppends) : \A j \in 1..Len(FsAppends[i].frames) :
         \E l \in 1..Len(framesFile[1]) : framesFile[1][l] = FrameLine(FsAppends[i].frames[j])
    /\ metaFile[1].chunkCount = Len(FsAppends)
    /\ FsFinalizes # <<>> =>
         \E i \in 1..Len(FsFinalizes) :
           /\ metaFile[1].durationMs = FsFinalizes[i].returned[1].durationMs
           /\ metaFile[1].avgFpsNum = FsFinalizes[i].returned[1].avgFpsNum
           /\ metaFile[1].avgFpsDen = FsFinalizes[i].returned[1].avgFpsDen

\* C37: appendFrames on a take that is not stored fails with "Take not found"
\* and stores nothing; with an empty frame list it returns frameCount 0 and
\* writes neither the metadata nor the frames; otherwise frameCount grows by
\* exactly the number of frames given and chunkCount does not decrease.  For
\* both repositories (takeRepoFs and takeRepo).
Lines(file) == IF file = NoFile THEN 0 ELSE Len(file[1])
C37_AppendFrames ==
  [][/\ (result' # NoCall /\ result'[1].op = "appendFrames") =>
          \E r \in {result'[1]}, given \in {Len(sent') - Len(sent)} :
            IF metaFile = NoFile
            THEN /\ "error" \in DOMAIN r /\ r.error = "Take not found"
                 /\ UNCHANGED <<metaFile, framesFile>>
            ELSE /\ "error" \notin DOMAIN r
                 /\ r.frameCount = given
                 /\ given = 0 => UNCHANGED <<metaFile, framesFile>>
                 /\ given > 0 =>
                      /\ metaFile'[1].frameCount = metaFile[1].frameCount + given
                      /\ metaFile'[1].chunkCount >= metaFile[1].chunkCount
                      /\ Lines(framesFile') = Lines(framesFile) + given
     /\ (mmkv # NoStorage /\ result' # NoCall /\ result'[1].op = "takeRepo.appendFrames") =>
          \A id \in 1..MaxRepoTakes, n \in 0..MaxChunkNo, frames \in RepoFrames :
            KvAppendFrames(id, n, frames) =>
              \E r \in {result'[1]}, given \in {Len(frames)} :
                IF id \notin DOMAIN mmkv[1].meta
                THEN /\ r.error = "Take not found"
                     /\ UNCHANGED mmkv
                ELSE /\ r.error = ""
                     /\ r.frameCount = given
                     /\ given = 0 => UNCHANGED mmkv
                     /\ given > 0 =>
                          /\ mmkv'[1].meta[id].frameCount = mmkv[1].meta[id].frameCount + given
                          /\ mmkv'[1].meta[id].chunkCount >= mmkv[1].meta[id].chunkCount
                          /\ mmkv'[1].meta[id].chunkCount > n
                          /\ Len(mmkv'[1].chunk[<<id, n>>].frames) = given
    ]_vars

\* appendFrames has been refused for a take that was created and deleted, and
\* nothing of the take is stored.
C37_AppendOnDeletedTake ==
  /\ result # NoCall /\ result[1].op = "takeRepo.appendFrames"
  /\ result[1].error = "Take not found"
  /\ mmkv[1].made >= result[1].id
  /\ result[1].id \notin DOMAIN mmkv[1].meta
  /\ \A k \in DOMAIN mmkv[1].chunk : k[1] # result[1].id

\* C38: the wrapper's started flag stands for a native engine that was
\* started and not stopped.  A start() that follows a start() the native
\* module rejected makes the native call again; a start() on a started
\* engine and a stop() on a stopped engine make no native call.
NativeRejections == {OptionsInvalid, CameraPermissionDenied, StartFailed}
C38_StartedFlag ==
  [][\A n \in {Len(engine.calls)} :
       Len(engine'.calls) = n + 1 =>
         \E new \in {engine'.calls[n + 1]} :
           /\ (/\ new.op = "start" /\ n > 0
               /\ engine.calls[n].op = "start"
               /\ engine.calls[n].outcome \in NativeRejections) => new.passed # <<>>
           /\ (/\ new.op = "start" /\ n > 0
               /\ engine.calls[n].op = "start"
               /\ engine.calls[n].outcome = "resolved"
               /\ engine.state = "running") => new.passed = <<>>
           /\ (/\ new.op = "stop"
               /\ \/ n = 0
                  \/ engine.calls[n].op = "stop" /\ engine.calls[n].outcome = "resolved")
                => new.passed = <<>>
    ]_vars

\* C39: every start() and stop() call that reaches the native module has its
\* promise settled in the end, and settled once: resolved or rejected, and
\* never changed after.
C39_EveryCallSettles ==
  /\ \A i \in 1..MaxEngineCalls :
       (Len(engine.calls) >= i /\ engine.calls[i].passed # <<>>)
         ~> (Len(engine.calls) >= i /\ engine.calls[i].outcome # "")
  /\ [][\A i \in 1..Len(engine.calls) :
          engine.calls[i].outcome # "" => engine'.calls[i].outcome = engine.calls[i].outcome]_vars

\* C40: the runner has at most one detection of its current session
\* outstanding, and its in-flight marker is set exactly while that one is;
\* a frame arriving meanwhile is dropped; and a result is handed only to the
\* output callback of the session that asked for it.
Outstanding == {q \in poseRunner.requests : q.session = poseRunner.sessionId}
C40_OneRequestInFlight ==
  /\ [](/\ Cardinality(Outstanding) <= 1
        /\ poseRunner.inFlight <=> Outstanding # {}
        /\ \A i \in 1..Len(poseRunner.outputs) :
             poseRunner.outputs[i].to = poseRunner.outputs[i].from)
  /\ [][(poseRunner.inFlight /\ poseRunner'.droppedFrames > poseRunner.droppedFrames) =>
          /\ poseRunner'.requests = poseRunner.requests
          /\ poseRunner'.inFlight]_vars

====
